---- MODULE Spec2Model ----
(***************************************************************************)
(* ArticleDoc: the PDF layout and pagination engine of popup.js            *)
(* (generatePDF and its helpers), the outline builder and the filename     *)
(* builders.                                                               *)
(*                                                                         *)
(* Lengths are integers in hundredths of a point (1pt = 100), so that the  *)
(* A4 page of jsPDF (595.28pt x 841.89pt) is exact.                        *)
(***************************************************************************)
EXTENDS Integers, Sequences, FiniteSets, TLC

VARIABLES
    stage,              \* position of generatePDF in its straight-line body
    todo,               \* the calls the running renderer has still to make
    lastOp,             \* the call that returned last
    y,                  \* let y: the vertical cursor
    currentPageNumber,  \* let currentPageNumber
    numPages,           \* pages of the jsPDF document (pdf.addPage appends one)
    outlineHeadings,    \* const outlineHeadings = []
    headingCounter,     \* let headingCounter
    firstLineAt,        \* canvas: where the first line of the last heading was drawn
    itemsLeft,          \* content items of the article not rendered yet
    inBlock,            \* inside the body of the loop over article.blocks
    renderLines,        \* drawCodeBlock: const renderLines
    codeI,              \* drawCodeBlock: let i
    drawnLines,         \* canvas: the render lines of the code block drawn so far
    codeSrc,            \* drawCodeBlock: originalLines of the block being drawn
    outline,            \* pdf.outline.root: the outline tree, as a sequence of nodes
    saved,              \* pdf.save was called
    article,            \* the article: its title, subtitle and publishedDate
    filename,           \* the name the document was saved under
    libFilename,        \* the result of __ArticleDocPDF.buildFilename(article)
    segments,           \* layoutSegmentsIntoLines: the segments to lay out
    maxWidth,           \* layoutSegmentsIntoLines: maxWidth
    lines,              \* layoutSegmentsIntoLines: the lines returned
    laidOut,            \* layoutSegmentsIntoLines has returned
    rawText,            \* a string handed to the text functions
    once,               \* <<normalizeUnicodeForPDF(text)>> once computed
    twice,              \* <<normalizeUnicodeForPDF of that>> once computed
    frags,              \* <<splitTokenIntoFragments(text, ...)>> once computed
    dataUrlByKey,       \* __emojiCache.dataUrlByKey: the keys it holds
    rasterized,         \* the number of emoji drawn onto the canvas
    requested,          \* the calls of getEmojiDataUrl: how many, and their keys
    refArticle,         \* collectReferences: the article it is given
    references,         \* collectReferences: the array it returned
    collected,          \* collectReferences has returned
    tocArgs,            \* buildTOC: its arguments, headings and maxLevel
    toc,                \* buildTOC: the section it returned, or null
    tocBuilt,           \* buildTOC has returned
    button,             \* convertBtn: the button shown, its disabled flag, text and click listener
    popupPc,            \* the await at which the running click handler stands
    ended,              \* how the conversion attempts so far have ended
    sharedTimer,        \* sendMessageToTab: timeoutId is shared by the attempts (popup.js) or not (library)
    timeoutId,          \* the attempt whose timer timeoutId holds, 0 for null
    attempts,           \* the attempts whose message was sent
    injections,         \* the calls of ensureContentScripts, how far each has come
    settled,            \* the promise of sendMessageToTab
    libOutline,         \* <<the tree built by __ArticleDocPDF.createOutline>>, once built
    contentPage,        \* the page of the tab: what the content script finds on it
    contentMsg,         \* msg.action of the message received
    responses,          \* the calls of sendResponse, in order
    listener            \* the listener of onMessage: pending, returned, or threw

genVars == <<stage, todo, lastOp, y, currentPageNumber, numPages, outlineHeadings,
             headingCounter, firstLineAt, itemsLeft, inBlock, renderLines, codeI,
             drawnLines, codeSrc, outline, saved, filename>>

layoutVars == <<segments, maxWidth, lines, laidOut>>

\* what generatePDF leaves alone until it saves the document
textVars == <<rawText, once, twice, frags>>

emojiVars == <<dataUrlByKey, rasterized, requested>>

refVars == <<refArticle, references, collected>>

tocVars == <<tocArgs, toc, tocBuilt>>

popupVars == <<button, popupPc, ended>>

messagingVars == <<sharedTimer, timeoutId, attempts, injections, settled>>

libOutlineVars == <<libOutline>>

contentVars == <<contentPage, contentMsg, responses, listener>>

restVars == <<article, libFilename, layoutVars, textVars, emojiVars, refVars, tocVars, popupVars, messagingVars, libOutlineVars, contentVars>>

\* what the popup's handlers leave alone
restOfPopup == <<article, libFilename, layoutVars, textVars, emojiVars, refVars, tocVars, messagingVars, libOutlineVars, contentVars>>

\* what sendMessageToTab leaves alone
restOfMessaging == <<article, libFilename, layoutVars, textVars, emojiVars, refVars, tocVars,
                     popupVars, libOutlineVars, contentVars>>

\* what createOutline leaves alone
restOfLibOutline == <<article, libFilename, layoutVars, textVars, emojiVars, refVars, tocVars,
                      popupVars, messagingVars, contentVars>>

\* what the content script leaves alone
restOfContent == <<article, libFilename, layoutVars, textVars, emojiVars, refVars, tocVars,
                   popupVars, messagingVars, libOutlineVars>>

vars == <<genVars, restVars>>

----------------------------------------------------------------------------
(* Bounds of the model *)

MaxItems == 2        \* content items (headings included) of one article
MaxLines == 1        \* wrapped lines of a short text
MaxListItems == 1    \* items of a list
MaxHeadings == 4     \* headings handed to the outline builder
MaxTitleLen == 3     \* characters of a title
MaxSegLen == 4       \* characters of the first segment of a text
MaxRawLen == 3       \* characters of a string to normalize and to split
MaxRequests == 3     \* calls of getEmojiDataUrl in a generation
MaxMentions == 3     \* mentions of an article given to collectReferences
MaxTocHeadings == 2  \* headings given to buildTOC
MaxAttempts == 4     \* conversion attempts started from the popup
MaxSends == 3        \* attempts and injections of one sendMessageToTab call
MaxNodes == 3        \* nodes of the article container
MaxStart == 106      \* start positions of a code block, 7pt apart
LongLines == 40      \* wrapped lines of a long paragraph
LongCode == 60       \* lines of a long run of equal code lines

----------------------------------------------------------------------------
(* Arithmetic helpers *)

Max(a, b) == IF a >= b THEN a ELSE b
Min(a, b) == IF a <= b THEN a ELSE b

\* Math.round(n / d) for n >= 0, d > 0: halves round up
Round(n, d) == (2 * n + d) \div (2 * d)

\* Math.floor(n / d)
Floor(n, d) == n \div d

----------------------------------------------------------------------------
(* Layout and typography configuration *)

margin == 5600
pageH == 84189
pageW == 59528
textW == pageW - 2 * margin

SIZE_title == 2200
SIZE_subtitle == 1450
SIZE_meta == 1100
SIZE_h2 == 1600
SIZE_h3 == 1400
SIZE_h4 == 1250
SIZE_body == 1100
SIZE_code == 1000

LH_body == 1600
LH_quote == 1600
LH_code == 1400

\* Math.round(size * k / 10) in points, for a size in hundredths of a point
RoundPt(size, k) == 100 * Round(size * k, 1000)

----------------------------------------------------------------------------
(* The page/pagination controller *)

Cursor(yy, cp, np) == [y |-> yy, currentPageNumber |-> cp, numPages |-> np]

\* ensureSpace without the reset of the cursor
ensureSpaceNoReset(c, h) ==
    IF c.y + h <= pageH - margin THEN c
    ELSE Cursor(c.y, c.currentPageNumber + 1, c.numPages + 1)

\* function ensureSpace(h)
ensureSpace(c, h) ==
    IF c.y + h <= pageH - margin THEN c
    ELSE Cursor(margin, c.currentPageNumber + 1, c.numPages + 1)

----------------------------------------------------------------------------
(* The calls of a renderer, in the order the renderer makes them.          *)
(*   ensure n : ensureSpace(n)                                             *)
(*   draw n   : draw one element at the cursor, then y += n                *)
(*   hdraw n  : the same for the first line of a heading                   *)
(*   adv n    : y += n                                                     *)
(*   chunk    : one iteration of the chunk loop of drawCodeBlock           *)

Op(o, n) == [op |-> o, n |-> n]

\* for (const line of lines) { ensureSpace(h); ...draw...; y += adv; }
LineOps(n, h, adv) ==
    [k \in 1..(2 * n) |-> IF k % 2 = 1 THEN Op("ensure", h) ELSE Op("draw", adv)]

RECURSIVE ConcatAll(_)
ConcatAll(ss) == IF ss = <<>> THEN <<>> ELSE Head(ss) \o ConcatAll(Tail(ss))

\* function drawParagraph(segments), for segments laid out into n lines
drawParagraph(n) == LineOps(n, LH_body, LH_body) \o <<Op("adv", 600)>>

\* function drawList(list), items[k] being the number of lines of item k
drawList(items) ==
    ConcatAll([k \in 1..Len(items) |->
                  LineOps(items[k], LH_body, LH_body) \o <<Op("adv", 600)>>])

\* function drawQuote(segments)
drawQuote(n) == LineOps(n, LH_quote, LH_quote) \o <<Op("adv", 600)>>

\* function drawHr()
drawHr == <<Op("ensure", 1600), Op("draw", 1200)>>

\* function drawCaption(segments): lineHeight = Math.round(size * 1.5)
drawCaption(n) ==
    LineOps(n, RoundPt(SIZE_meta, 15), RoundPt(SIZE_meta, 15)) \o <<Op("adv", 600)>>

\* drawHeading: const size, const lh
HeadingSize(level) == IF level = 2 THEN SIZE_h2 ELSE IF level = 3 THEN SIZE_h3 ELSE SIZE_h4
HeadingLH(level) == RoundPt(HeadingSize(level), 15)

\* function drawHeading(text, level), after the push onto outlineHeadings
drawHeading(n, level) ==
    [k \in 1..(2 * n) |->
        IF k % 2 = 1 THEN Op("ensure", HeadingLH(level))
        ELSE IF k = 2 THEN Op("hdraw", HeadingLH(level))
        ELSE Op("draw", HeadingLH(level))]
    \o <<Op("adv", 400)>>

\* An image: ok = FALSE when loading or decoding fails; width, height in px
Image(ok, w, h) == [ok |-> ok, width |-> w, height |-> h]

\* drawImage: const scale, imgW, imgH (hundredths of a point, rounded down)
ImgW(img) == IF 100 * img.width > textW THEN textW ELSE 100 * img.width
ImgH(img) == (img.height * ImgW(img)) \div img.width

\* drawImage making room before it loads the image
drawImageReserve(img) ==
    IF ~img.ok THEN <<Op("ensure", 600)>>
    ELSE <<Op("ensure", ImgH(img) + 600), Op("draw", ImgH(img) + 1000)>>

\* async function drawImage(imgItem)
drawImage(img) ==
    IF ~img.ok THEN <<>>
    ELSE <<Op("ensure", ImgH(img) + 600), Op("draw", ImgH(img) + 1000)>>

----------------------------------------------------------------------------
(* drawCodeBlock.  A code line is the sequence of the lengths (characters) *)
(* of its non-whitespace tokens, which single spaces separate; the         *)
(* originalLines of a block are given as runs of equal lines.              *)

minSize == 700

\* pdf.getTextWidth(t) in Courier (every glyph 0.6 em) at font size fs
getTextWidth(chars, fs) == (chars * 6 * fs) \div 10

\* let longest: the widest non-space token of the line at the current font size
RECURSIVE Longest(_, _)
Longest(line, fs) ==
    IF line = <<>> THEN 0
    ELSE Max(getTextWidth(Head(line), fs), Longest(Tail(line), fs))

\* let size: measured at fs, the font size the pdf object has at that moment
lineSize(line, fs) ==
    IF Longest(line, fs) > textW
    THEN Max(minSize, 100 * Floor((SIZE_code \div 100) * textW, Longest(line, fs)))
    ELSE SIZE_code

\* pdf.splitTextToSize(line, textW) at font size `size`: the number of parts.
\* Words are packed greedily; a word wider than the column is cut into pieces.
RECURSIVE Wrap(_, _, _, _)
Wrap(line, maxc, done, cur) ==
    IF line = <<>> THEN done + 1
    ELSE LET n == Head(line) IN
         IF n > maxc
         THEN Wrap(Tail(line), maxc,
                   done + (IF cur > 0 THEN 1 ELSE 0) + ((n - 1) \div maxc),
                   ((n - 1) % maxc) + 1)
         ELSE IF cur = 0 THEN Wrap(Tail(line), maxc, done, n)
         ELSE IF cur + 1 + n <= maxc THEN Wrap(Tail(line), maxc, done, cur + 1 + n)
         ELSE Wrap(Tail(line), maxc, done + 1, n)

splitTextToSize(line, size) == Wrap(line, textW \div getTextWidth(1, size), 0, 0)

\* for (const line of originalLines) {...}: the render lines of originalLines[k..],
\* fs being the font size of the pdf object when line k is measured
RECURSIVE RenderLinesFrom(_, _, _)
RenderLinesFrom(originalLines, k, fs) ==
    IF k > Len(originalLines) THEN <<>>
    ELSE LET size == lineSize(originalLines[k], fs)
             parts == splitTextToSize(originalLines[k], size)
         IN  [p \in 1..parts |-> [line |-> k, size |-> size]]
             \o RenderLinesFrom(originalLines, k + 1, size)

\* const lineHeights = renderLines.map(...)
lineHeight(rl) == 100 * Round(LH_code * rl.size, 100 * SIZE_code)

padTop == 800
padBottom == 800

\* const afterGap = Math.max(10, Math.round(LINE_HEIGHTS.body * 0.75))
afterGap == Max(1000, 100 * Round(LH_body * 75, 10000))

\* while (end < renderLines.length) { if (used + lh > available) break; ... }
RECURSIVE FitEnd(_, _, _, _)
FitEnd(rls, end, used, available) ==
    IF end > Len(rls) THEN [end |-> end, used |-> used]
    ELSE IF used + lineHeight(rls[end]) > available THEN [end |-> end, used |-> used]
    ELSE FitEnd(rls, end + 1, used + lineHeight(rls[end]), available)

\* One iteration of the loop without its bound on the lines drawn: j <= end
codeChunkOffByOne(rls, i, c) ==
    LET minNeeded == padTop + lineHeight(rls[i]) + padBottom
        brk == (pageH - margin) - c.y < minNeeded
        y0 == IF brk THEN margin ELSE c.y
        fit == FitEnd(rls, i, padTop + padBottom, (pageH - margin) - y0)
        end == IF fit.end = i THEN i + 1 ELSE fit.end
        used == IF fit.end = i THEN padTop + lineHeight(rls[i]) + padBottom ELSE fit.used
    IN  [c |-> Cursor(y0 + used + (IF end > Len(rls) THEN afterGap ELSE 0),
                      c.currentPageNumber,
                      c.numPages + (IF brk THEN 1 ELSE 0)),
         i |-> end,
         drawn |-> [j \in 1..(Min(end, Len(rls)) - i + 1) |-> i + j - 1]]

\* One iteration of while (i < renderLines.length) {...}; i and end count from 1,
\* so that the lines drawn are i .. end - 1
codeChunk(rls, i, c) ==
    LET minNeeded == padTop + lineHeight(rls[i]) + padBottom
        brk == (pageH - margin) - c.y < minNeeded
        y0 == IF brk THEN margin ELSE c.y
        fit == FitEnd(rls, i, padTop + padBottom, (pageH - margin) - y0)
        end == IF fit.end = i THEN i + 1 ELSE fit.end
        used == IF fit.end = i THEN padTop + lineHeight(rls[i]) + padBottom ELSE fit.used
    IN  [c |-> Cursor(y0 + used + (IF end > Len(rls) THEN afterGap ELSE 0),
                      c.currentPageNumber,
                      c.numPages + (IF brk THEN 1 ELSE 0)),
         i |-> end,
         drawn |-> [j \in 1..(end - i) |-> i + j - 1]]

\* the originalLines of a code text given as runs [line, reps]
RECURSIVE Expand(_)
Expand(runs) ==
    IF runs = <<>> THEN <<>>
    ELSE [k \in 1..Head(runs).reps |-> Head(runs).line] \o Expand(Tail(runs))

----------------------------------------------------------------------------
(* createPDFOutline.  The outline tree is the sequence of its nodes in the *)
(* order they were created; parent = 0 for a node of pdf.outline.root.     *)
(* children.  The children of a node are pushed in creation order, so the  *)
(* order of siblings is the order of the sequence.                         *)

Heading(id, level, page, yy) == [id |-> id, level |-> level, page |-> page, y |-> yy]

\* pdf.internal.getPageInfo(page) yields a page of the document
\* every page resolves
PageInfoAlways(np, page) == TRUE

PageInfoOK(np, page) == page \in 1..np

\* the stack loop with the comparison turned round
popStackFlipped(stack, level) ==
    LET RECURSIVE P(_)
        P(st) == IF st # <<>> /\ st[Len(st)].level <= level
                 THEN P(SubSeq(st, 1, Len(st) - 1)) ELSE st
    IN  P(stack)

\* while (itemStack.length > 0 && top.level >= heading.level) itemStack.pop()
popStack(stack, level) ==
    LET RECURSIVE P(_)
        P(st) == IF st # <<>> /\ st[Len(st)].level >= level
                 THEN P(SubSeq(st, 1, Len(st) - 1)) ELSE st
    IN  P(stack)

\* const outlineItem = {...}; objId is i + 1, the position of the heading
OutlineItem(i, h, parent) ==
    [objId |-> i, title |-> h.id, level |-> h.level, parent |-> parent,
     destPage |-> h.page, destY |-> pageH - h.y]

\* for (let i = 0; i < headings.length; i++) {...}
RECURSIVE OutlineFrom(_, _, _, _, _)
OutlineFrom(headings, np, i, nodes, stack) ==
    IF i > Len(headings) THEN nodes
    ELSE IF ~PageInfoOK(np, headings[i].page)
         THEN OutlineFrom(headings, np, i + 1, nodes, stack)
    ELSE LET st == popStack(stack, headings[i].level)
             parent == IF st # <<>> THEN st[Len(st)].objId ELSE 0
             item == OutlineItem(i, headings[i], parent)
         IN  OutlineFrom(headings, np, i + 1, Append(nodes, item), Append(st, item))

\* function createPDFOutline(pdf, headings)
createPDFOutline(headings, np) == OutlineFrom(headings, np, 1, <<>>, <<>>)

\* libs/pdf.global.js, the loop of createOutline without the plugin: the stack
\* is popped before the page is looked up
RECURSIVE LibOutlineFrom(_, _, _, _, _)
LibOutlineFrom(headings, np, i, nodes, stack) ==
    IF i > Len(headings) THEN nodes
    ELSE LET st == popStack(stack, headings[i].level)
             parent == IF st # <<>> THEN st[Len(st)].objId ELSE 0
             item == OutlineItem(i, headings[i], parent)
         IN  IF ~PageInfoOK(np, headings[i].page)
             THEN LibOutlineFrom(headings, np, i + 1, nodes, st)
             ELSE LibOutlineFrom(headings, np, i + 1, Append(nodes, item), Append(st, item))

\* function createOutline(pdf, headings, logger)
createOutline(headings, np) == LibOutlineFrom(headings, np, 1, <<>>, <<>>)

----------------------------------------------------------------------------
(* Text.  A string is the sequence of its characters; widths are in        *)
(* 1/100000 pt, so that the 2% and 8% margins of the measurements are      *)
(* exact.                                                                  *)

Whitespace == {" ", "\n"}
Letters == {"a", "W", "e"}
Emoji == {"emoji", "star"}

\* a table whose results it would change again
NormalizeCharChained(c) ==
    IF c = "guillemet" THEN <<"em-dash", "em-dash">>
    ELSE IF c = "em-dash" THEN <<"-">>
    ELSE <<c>>

\* normalizeUnicodeForPDF on one character: NFKD with the combining marks
\* removed, then UNICODE_TO_ASCII_MAP
NormalizeChar(c) ==
    IF c = "ellipsis" THEN <<".", ".", ".">>
    ELSE IF c = "em-dash" THEN <<"-">>
    ELSE IF c = "guillemet" THEN <<"<", "<">>
    ELSE IF c = "e-acute" THEN <<"e">>
    ELSE IF c = "math-A" THEN <<"A">>
    ELSE IF c = "combining-acute" THEN <<>>
    ELSE <<c>>

\* function normalizeUnicodeForPDF(text)
RECURSIVE normalizeUnicodeForPDF(_)
normalizeUnicodeForPDF(text) ==
    IF text = <<>> THEN <<>>
    ELSE NormalizeChar(Head(text)) \o normalizeUnicodeForPDF(Tail(text))

\* a segment: a run of text of one style
Segment(text, bold, italic, mono, link) ==
    [text |-> text, bold |-> bold, italic |-> italic, mono |-> mono, link |-> link]

\* the advance width of a character in 1/1000 em: Courier for a mono segment,
\* Helvetica (the same in bold for these characters) otherwise
CharUnits(c, seg) ==
    IF seg.mono THEN 600
    ELSE IF c = "W" THEN 944
    ELSE IF c \in {"H", "w"} THEN 722
    ELSE IF c = "l" THEN 222
    ELSE IF c = "r" THEN 333
    ELSE IF c \in {" ", ".", "!"} THEN 278
    ELSE IF c = "-" THEN 333
    ELSE 556

RECURSIVE TextUnits(_, _)
TextUnits(text, seg) ==
    IF text = <<>> THEN 0 ELSE CharUnits(Head(text), seg) + TextUnits(Tail(text), seg)

\* measure(currentText) * 1.02 under withSegFont(seg, size): size in 1/100 pt
measureText(text, seg, size) == TextUnits(normalizeUnicodeForPDF(text), seg) * (size \div 100) * 102

\* measureEmojiWidthPt: px * k * 1.08, for a glyph one em wide on the canvas
measureEmojiWidthPt(g, seg, size) == 1000 * (size \div 100) * 108

\* function isEmojiGrapheme(gr)
isEmojiGrapheme(g) == g \in Emoji

\* function splitTokenIntoFragments(tok, seg, size); cur is currentText
RECURSIVE FragmentsFrom(_, _, _, _)
FragmentsFrom(graphemes, cur, seg, size) ==
    LET flush == IF cur = <<>> THEN <<>>
                 ELSE <<[type |-> "text", text |-> cur, width |-> measureText(cur, seg, size)]>>
    IN  IF graphemes = <<>> THEN flush
        ELSE IF isEmojiGrapheme(Head(graphemes))
             THEN flush
                  \o <<[type |-> "emoji", text |-> <<Head(graphemes)>>,
                        width |-> measureEmojiWidthPt(Head(graphemes), seg, size)]>>
                  \o FragmentsFrom(Tail(graphemes), <<>>, seg, size)
        ELSE FragmentsFrom(Tail(graphemes), Append(cur, Head(graphemes)), seg, size)

\* the fragments with the emoji pushed before the text that precedes them
splitTokenEmojiFirst(tok, seg, size) ==
    LET out == FragmentsFrom(normalizeUnicodeForPDF(tok), <<>>, seg, size)
    IN  SelectSeq(out, LAMBDA f : f.type = "emoji") \o SelectSeq(out, LAMBDA f : f.type = "text")

splitTokenIntoFragments(tok, seg, size) ==
    FragmentsFrom(normalizeUnicodeForPDF(tok), <<>>, seg, size)

\* fragments.reduce((acc, f) => acc + (f.width || 0), 0)
RECURSIVE SumWidths(_)
SumWidths(parts) == IF parts = <<>> THEN 0 ELSE Head(parts).width + SumWidths(Tail(parts))

\* String(normalizedText).split(/(\n)/): the chunks, the newlines among them
RECURSIVE SplitNewlines(_, _)
SplitNewlines(text, cur) ==
    IF text = <<>> THEN <<cur>>
    ELSE IF Head(text) = "\n" THEN <<cur, <<"\n">>>> \o SplitNewlines(Tail(text), <<>>)
    ELSE SplitNewlines(Tail(text), Append(cur, Head(text)))

\* /^\s+$/.test(tok)
IsSpaceToken(tok) == tok # <<>> /\ \A k \in 1..Len(tok) : tok[k] \in Whitespace

\* chunk.match(/\S+\s*|\s+/g) || []: cur is the match being read, which is in
\* its whitespace when inSpace
RECURSIVE MatchTokens(_, _, _)
MatchTokens(chunk, cur, inSpace) ==
    IF chunk = <<>> THEN (IF cur = <<>> THEN <<>> ELSE <<cur>>)
    ELSE IF Head(chunk) \in Whitespace
         THEN MatchTokens(Tail(chunk), Append(cur, Head(chunk)), TRUE)
    ELSE IF inSpace THEN <<cur>> \o MatchTokens(Tail(chunk), <<Head(chunk)>>, FALSE)
    ELSE MatchTokens(Tail(chunk), Append(cur, Head(chunk)), FALSE)

\* singleCharRe: /^(?:\p{L}|\p{N})\s?$/u
IsSingleChar(tok) ==
    /\ Len(tok) \in {1, 2}
    /\ tok[1] \in Letters
    /\ Len(tok) = 2 => tok[2] \in Whitespace

\* function combineSingleCharRuns(tokens)
RECURSIVE CombineFrom(_, _, _)
CombineFrom(tokens, buffer, trailingSpace) ==
    LET flush == IF buffer # <<>>
                 THEN <<buffer \o (IF trailingSpace THEN <<" ">> ELSE <<>>)>> ELSE <<>>
    IN  IF tokens = <<>> THEN flush
        ELSE LET tok == Head(tokens) IN
             IF IsSpaceToken(tok) THEN flush \o <<tok>> \o CombineFrom(Tail(tokens), <<>>, FALSE)
             ELSE IF IsSingleChar(tok)
                  THEN CombineFrom(Tail(tokens), Append(buffer, tok[1]),
                                   trailingSpace \/ Len(tok) = 2)
             ELSE flush \o <<tok>> \o CombineFrom(Tail(tokens), <<>>, FALSE)

combineSingleCharRuns(tokens) == CombineFrom(tokens, <<>>, FALSE)

\* the state of layoutSegmentsIntoLines: lines, current, lineWidth
Layout(ls, current, lineWidth) == [lines |-> ls, current |-> current, lineWidth |-> lineWidth]

\* pushLine without its test of current.length
pushLineAlways(st) == Layout(Append(st.lines, st.current), <<>>, 0)

\* const pushLine = () => {...}
pushLine(st) ==
    Layout(IF st.current # <<>> THEN Append(st.lines, st.current) ELSE st.lines, <<>>, 0)

\* a part that does not take the flags of its segment
LinePartPlain(seg, tok, fragments) ==
    [text |-> tok, width |-> SumWidths(fragments), fragments |-> fragments,
     bold |-> FALSE, italic |-> FALSE, mono |-> FALSE, link |-> FALSE]

\* { ...seg, text: tok, width: w, fragments }
LinePart(seg, tok, fragments) ==
    [text |-> tok, width |-> SumWidths(fragments), fragments |-> fragments,
     bold |-> seg.bold, italic |-> seg.italic, mono |-> seg.mono, link |-> seg.link]

\* the body of for (let tok of tokens) without the break before a token that
\* does not fit
placeTokenNoBreak(st, tok, seg, mw, size) ==
    IF st.current = <<>> /\ IsSpaceToken(tok) THEN st
    ELSE LET fragments == splitTokenIntoFragments(tok, seg, size)
             w == SumWidths(fragments)
         IN  Layout(st.lines, Append(st.current, LinePart(seg, tok, fragments)),
                    st.lineWidth + w)

\* the body of for (let tok of tokens) {...}
placeToken(st, tok, seg, mw, size) ==
    IF st.current = <<>> /\ IsSpaceToken(tok) THEN st
    ELSE LET fragments == splitTokenIntoFragments(tok, seg, size)
             w == SumWidths(fragments)
             brk == st.lineWidth + w > mw /\ st.current # <<>>
             st1 == IF brk THEN pushLine(st) ELSE st
         IN  IF brk /\ IsSpaceToken(tok) THEN st1
             ELSE Layout(st1.lines, Append(st1.current, LinePart(seg, tok, fragments)),
                         st1.lineWidth + w)

RECURSIVE PlaceTokens(_, _, _, _, _)
PlaceTokens(st, tokens, seg, mw, size) ==
    IF tokens = <<>> THEN st
    ELSE PlaceTokens(placeToken(st, Head(tokens), seg, mw, size), Tail(tokens), seg, mw, size)

\* the body of for (const chunk of chunks) {...}
RECURSIVE PlaceChunks(_, _, _, _, _)
PlaceChunks(st, chunks, seg, mw, size) ==
    IF chunks = <<>> THEN st
    ELSE LET chunk == Head(chunks)
             st1 == IF chunk = <<"\n">> THEN pushLine(st)
                    ELSE IF chunk = <<>> THEN st
                    ELSE PlaceTokens(st, combineSingleCharRuns(MatchTokens(chunk, <<>>, FALSE)),
                                     seg, mw, size)
         IN  PlaceChunks(st1, Tail(chunks), seg, mw, size)

\* the body of for (const seg of segments) {...}
RECURSIVE PlaceSegments(_, _, _, _)
PlaceSegments(st, segs, mw, size) ==
    IF segs = <<>> THEN st
    ELSE PlaceSegments(
             PlaceChunks(st, SplitNewlines(normalizeUnicodeForPDF(Head(segs).text), <<>>),
                         Head(segs), mw, size),
             Tail(segs), mw, size)

\* function layoutSegmentsIntoLines(segments, maxWidth, size)
layoutSegmentsIntoLines(segs, mw, size) ==
    pushLine(PlaceSegments(Layout(<<>>, <<>>, 0), segs, mw, size)).lines

NoLayout ==
    /\ segments = <<>>
    /\ maxWidth = 0
    /\ lines = <<>>
    /\ laidOut = FALSE

NoText ==
    /\ rawText = <<>>
    /\ once = <<>>
    /\ twice = <<>>
    /\ frags = <<>>

----------------------------------------------------------------------------
(* The emoji cache *)

\* function styleFromSeg(seg)
styleFromSeg(seg) ==
    IF seg.mono THEN [family |-> "courier", style |-> "normal"]
    ELSE IF seg.bold /\ seg.italic THEN [family |-> "helvetica", style |-> "bolditalic"]
    ELSE IF seg.bold THEN [family |-> "helvetica", style |-> "bold"]
    ELSE IF seg.italic THEN [family |-> "helvetica", style |-> "italic"]
    ELSE [family |-> "helvetica", style |-> "normal"]

\* function fontSignatureForSeg(seg, size)
fontSignatureForSeg(seg, size) == <<styleFromSeg(seg).family, styleFromSeg(seg).style, size>>

\* a key that leaves the size out
emojiKeyNoSize(emoji, seg, size) == <<emoji, fontSignatureForSeg(seg, 0)>>

\* const key = `${emoji}|${fontSignatureForSeg(seg, size)}`
emojiKey(emoji, seg, size) == <<emoji, fontSignatureForSeg(seg, size)>>

NoEmoji ==
    /\ dataUrlByKey = {}
    /\ rasterized = 0
    /\ requested = [calls |-> 0, keys |-> {}]

----------------------------------------------------------------------------
(* References (libs/references.global.js) *)

\* null: a value without properties
Null == [k \in {} |-> ""]

\* !r[f]: the property is missing or the empty string
Falsy(r, f) == f \notin DOMAIN r \/ r[f] = ""

\* a reference: { id: 'ref_' + (i + 1), label: r.title || url, url: url },
\* i counted from 1 here
Reference(r, i) ==
    [id |-> <<"ref_", i>>, label |-> IF Falsy(r, "title") THEN r.url ELSE r.title, url |-> r.url]

\* a collector that does not look at the URLs it has seen
RECURSIVE CollectAllFrom(_, _, _, _)
CollectAllFrom(refs, i, seen, out) ==
    IF i > Len(refs) THEN out
    ELSE IF Falsy(refs[i], "url") THEN CollectAllFrom(refs, i + 1, seen, out)
    ELSE CollectAllFrom(refs, i + 1, seen, Append(out, Reference(refs[i], i)))

\* for (var i = 0; i < refs.length; i++) {...}
RECURSIVE CollectFrom(_, _, _, _)
CollectFrom(refs, i, seen, out) ==
    IF i > Len(refs) THEN out
    ELSE IF Falsy(refs[i], "url") \/ refs[i].url \in seen THEN CollectFrom(refs, i + 1, seen, out)
    ELSE CollectFrom(refs, i + 1, seen \cup {refs[i].url}, Append(out, Reference(refs[i], i)))

\* function collectReferences(article)
collectReferences(art) ==
    CollectFrom(IF "mentions" \in DOMAIN art THEN art.mentions ELSE <<>>, 1, {}, <<>>)

NoReferences ==
    /\ refArticle = Null
    /\ references = <<>>
    /\ collected = FALSE

NoPopup ==
    /\ button = Null
    /\ popupPc = "idle"
    /\ ended = <<>>

NoMessaging ==
    /\ sharedTimer = FALSE
    /\ timeoutId = 0
    /\ attempts = <<>>
    /\ injections = <<>>
    /\ settled = "pending"

NoLibOutline == libOutline = <<>>

NoContent ==
    /\ contentPage = Null
    /\ contentMsg = ""
    /\ responses = <<>>
    /\ listener = "pending"

NoToc ==
    /\ tocArgs = Null
    /\ toc = Null
    /\ tocBuilt = FALSE

----------------------------------------------------------------------------
(* Filenames *)

Separators == {"-", "en-dash", "em-dash", ":", "|"}
Illegal == {"\\", "/", ":", "*", "?", "\"", "<", ">", "|"}
Digits == {"0", "1", "2", "3", "4", "5", "6", "7", "8", "9"}

Str_pdf == <<".", "p", "d", "f">>
Str_article == <<"a", "r", "t", "i", "c", "l", "e">>

\* String.prototype.trim
RECURSIVE TrimLeft(_)
TrimLeft(s) == IF s # <<>> /\ Head(s) \in Whitespace THEN TrimLeft(Tail(s)) ELSE s

RECURSIVE TrimRight(_)
TrimRight(s) ==
    IF s # <<>> /\ s[Len(s)] \in Whitespace THEN TrimRight(SubSeq(s, 1, Len(s) - 1)) ELSE s

Trim(s) == TrimRight(TrimLeft(s))

\* the title kept whole
DropSubtitleKeep(s, cut) == s

\* .replace(/[-:|]+.*/g, ""): from a separator to the end of its line ("." does
\* not match a line terminator); cut = inside such a match
RECURSIVE DropSubtitle(_, _)
DropSubtitle(s, cut) ==
    IF s = <<>> THEN <<>>
    ELSE IF Head(s) = "\n" THEN <<"\n">> \o DropSubtitle(Tail(s), FALSE)
    ELSE IF cut \/ Head(s) \in Separators THEN DropSubtitle(Tail(s), TRUE)
    ELSE <<Head(s)>> \o DropSubtitle(Tail(s), FALSE)

\* .replace(/\s+/g, "_") and .replace(/_+/g, "_"): every run of characters of cs
\* becomes one "_"
RECURSIVE RunsToUnderscore(_, _, _)
RunsToUnderscore(s, cs, inRun) ==
    IF s = <<>> THEN <<>>
    ELSE IF Head(s) \in cs
         THEN (IF inRun THEN <<>> ELSE <<"_">>) \o RunsToUnderscore(Tail(s), cs, TRUE)
    ELSE <<Head(s)>> \o RunsToUnderscore(Tail(s), cs, FALSE)

\* .replace(/[\\/:*?"<>|]+/g, "")
RECURSIVE RemoveIllegal(_)
RemoveIllegal(s) ==
    IF s = <<>> THEN <<>>
    ELSE (IF Head(s) \in Illegal THEN <<>> ELSE <<Head(s)>>) \o RemoveIllegal(Tail(s))

\* .replace(/^_+|_+$/g, "")
RECURSIVE StripUnderscores(_)
StripUnderscores(s) ==
    IF s # <<>> /\ Head(s) = "_" THEN StripUnderscores(Tail(s))
    ELSE IF s # <<>> /\ s[Len(s)] = "_" THEN StripUnderscores(SubSeq(s, 1, Len(s) - 1))
    ELSE s

\* function sanitizeTitleForFilename(title)
sanitizeTitleForFilename(title) ==
    LET base == RunsToUnderscore(DropSubtitle(Trim(title), FALSE), Whitespace, FALSE)
    IN  StripUnderscores(RunsToUnderscore(RemoveIllegal(base), {"_"}, FALSE))

\* /^\d{4}-\d{2}-\d{2}$/
IsYMD(d) ==
    /\ Len(d) = 10
    /\ \A k \in 1..10 : IF k \in {5, 8} THEN d[k] = "-" ELSE d[k] \in Digits

\* function buildFilename(article) of generatePDF
buildFilename(a) ==
    LET safeTitle == sanitizeTitleForFilename(a.title)
    IN  IF IsYMD(a.publishedDate)
        THEN a.publishedDate \o <<"-">> \o safeTitle \o Str_pdf
        ELSE (IF safeTitle # <<>> THEN safeTitle ELSE Str_article) \o Str_pdf

\* .slice(0, 80)
Slice80(s) == IF Len(s) > 80 THEN SubSeq(s, 1, 80) ELSE s

\* function buildFilename(article) of __ArticleDocPDF
libBuildFilename(a) ==
    LET title == IF a.title # <<>> THEN a.title
                 ELSE IF a.subtitle # <<>> THEN a.subtitle ELSE Str_article
        safe == Slice80(sanitizeTitleForFilename(title))
        name == IF safe # <<>> THEN safe ELSE Str_article
    IN  IF IsYMD(a.publishedDate)
        THEN a.publishedDate \o <<"-">> \o name \o Str_pdf
        ELSE name \o Str_pdf

Article(title, subtitle, date) == [title |-> title, subtitle |-> subtitle, publishedDate |-> date]

----------------------------------------------------------------------------
(* Inputs of one generation *)

GenArticle == Article(<<"a">>, <<>>, <<>>)

LineCounts == 0..MaxLines

Levels == {2, 3, 4}

\* lists of at most n line counts (the items of a list, the mentions)
SeqsUpTo(S, n) == UNION {[1..k -> S] : k \in 0..n}

Images == {Image(FALSE, 0, 0), Image(TRUE, 1000, 800), Image(TRUE, 400, 900)}

\* token lengths: short; 81 and 115 characters overflow the column at 10pt and
\* fit at 9pt and 7pt; 116 characters overflow it at every size allowed
CodeLines == {<<>>, <<40>>, <<81>>, <<115>>, <<116>>, <<40, 81>>}

CodeRuns == {[line |-> l, reps |-> r] : l \in CodeLines, r \in {1, LongCode}}

CodeTexts == {<<r>> : r \in CodeRuns}
             \cup {<<r1, r2>> : r1 \in {r \in CodeRuns : r.reps = 1},
                                r2 \in {r \in CodeRuns : r.reps = 1}}

\* the code blocks of an article: short and long, plain and shrunk lines
ArticleCode == {<<[line |-> <<40>>, reps |-> 1]>>,
                <<[line |-> <<40>>, reps |-> LongCode]>>,
                <<[line |-> <<81>>, reps |-> LongCode]>>,
                <<[line |-> <<116>>, reps |-> 1], [line |-> <<81>>, reps |-> 1]>>}

----------------------------------------------------------------------------
(* generatePDF *)

Cur == Cursor(y, currentPageNumber, numPages)

SetCursor(c) ==
    /\ y' = c.y
    /\ currentPageNumber' = c.currentPageNumber
    /\ numPages' = c.numPages

\* the locals of drawCodeBlock are gone once it has returned
NoCode ==
    /\ renderLines' = <<>>
    /\ codeI' = 0
    /\ drawnLines' = <<>>
    /\ codeSrc' = <<>>

\* a renderer is entered: its calls become the calls to make
EnterAs(ops, how) ==
    /\ todo = <<>>
    /\ todo' = ops
    /\ lastOp' = how
    /\ NoCode
    /\ UNCHANGED <<y, currentPageNumber, numPages, firstLineAt, outline, saved, filename, restVars>>

Enter(ops) == EnterAs(ops, "enter")

GenInit ==
    /\ stage = "title"
    /\ todo = <<>>
    /\ lastOp = "start"
    /\ y = margin
    /\ currentPageNumber = 1
    /\ numPages = 1
    /\ outlineHeadings = <<>>
    /\ headingCounter = 0
    /\ firstLineAt = [id |-> 0, page |-> 0, y |-> 0]
    /\ itemsLeft = MaxItems
    /\ inBlock = FALSE
    /\ renderLines = <<>>
    /\ codeI = 0
    /\ drawnLines = <<>>
    /\ codeSrc = <<>>
    /\ outline = <<>>
    /\ saved = FALSE
    /\ article = GenArticle
    /\ filename = <<>>
    /\ libFilename = <<>>
    /\ NoLayout /\ NoText /\ NoEmoji /\ NoContent /\ NoLibOutline /\ NoMessaging /\ NoPopup /\ NoToc /\ NoReferences

(* The calls of the running renderer, one at a time *)

EnsureSpaceStep ==
    /\ todo # <<>> /\ Head(todo).op = "ensure"
    /\ SetCursor(ensureSpace(Cur, Head(todo).n))
    /\ todo' = Tail(todo)
    /\ lastOp' = "ensure"
    /\ NoCode
    /\ UNCHANGED <<stage, outlineHeadings, headingCounter, firstLineAt, itemsLeft,
                   inBlock, outline, saved, filename, restVars>>

DrawStep ==
    /\ todo # <<>> /\ Head(todo).op = "draw"
    /\ y' = y + Head(todo).n
    /\ todo' = Tail(todo)
    /\ lastOp' = "draw"
    /\ NoCode
    /\ UNCHANGED <<stage, currentPageNumber, numPages, outlineHeadings, headingCounter,
                   firstLineAt, itemsLeft, inBlock, outline, saved, filename, restVars>>

HeadingDrawStep ==
    /\ todo # <<>> /\ Head(todo).op = "hdraw"
    /\ firstLineAt' = [id |-> headingCounter, page |-> numPages, y |-> y]
    /\ y' = y + Head(todo).n
    /\ todo' = Tail(todo)
    /\ lastOp' = "hdraw"
    /\ NoCode
    /\ UNCHANGED <<stage, currentPageNumber, numPages, outlineHeadings, headingCounter,
                   itemsLeft, inBlock, outline, saved, filename, restVars>>

AdvanceStep ==
    /\ todo # <<>> /\ Head(todo).op = "adv"
    /\ y' = y + Head(todo).n
    /\ todo' = Tail(todo)
    /\ lastOp' = "adv"
    /\ NoCode
    /\ UNCHANGED <<stage, currentPageNumber, numPages, outlineHeadings, headingCounter,
                   firstLineAt, itemsLeft, inBlock, outline, saved, filename, restVars>>

CodeChunkStep ==
    /\ todo # <<>> /\ Head(todo).op = "chunk"
    /\ LET r == codeChunk(renderLines, codeI, Cur) IN
        /\ SetCursor(r.c)
        /\ codeI' = r.i
        /\ drawnLines' = drawnLines \o r.drawn
        /\ todo' = IF r.i > Len(renderLines) THEN Tail(todo) ELSE todo
    /\ lastOp' = "chunk"
    /\ UNCHANGED <<stage, outlineHeadings, headingCounter, firstLineAt, itemsLeft,
                   inBlock, renderLines, codeSrc, outline, saved, filename, restVars>>

(* The header *)

Title ==
    /\ stage = "title"
    /\ \E n \in 1..MaxLines :
          Enter(LineOps(n, RoundPt(SIZE_title, 16), RoundPt(SIZE_title, 12)))
    /\ stage' = "subtitle"
    /\ UNCHANGED <<outlineHeadings, headingCounter, itemsLeft, inBlock>>

Subtitle ==
    /\ stage = "subtitle"
    /\ \/ Enter(<<>>)
       \/ \E n \in 1..MaxLines :
             Enter(<<Op("ensure", RoundPt(SIZE_subtitle, 15))>>
                   \o LineOps(n, RoundPt(SIZE_subtitle, 15), RoundPt(SIZE_subtitle, 15)))
    /\ stage' = "hr1"
    /\ UNCHANGED <<outlineHeadings, headingCounter, itemsLeft, inBlock>>

HeaderRule ==
    /\ stage \in {"hr1", "hr2"}
    /\ Enter(drawHr)
    /\ stage' = IF stage = "hr1" THEN "meta" ELSE "hero"
    /\ UNCHANGED <<outlineHeadings, headingCounter, itemsLeft, inBlock>>

\* the meta line and the URL line: ensureSpace, the line drawn, y += 18
MetaOrUrl ==
    /\ stage \in {"meta", "url"}
    /\ \/ Enter(<<>>)
       \/ Enter(<<Op("ensure", RoundPt(SIZE_meta, 16)), Op("draw", 1800)>>)
    /\ stage' = IF stage = "meta" THEN "url" ELSE "hr2"
    /\ UNCHANGED <<outlineHeadings, headingCounter, itemsLeft, inBlock>>

Hero ==
    /\ stage = "hero"
    /\ \/ Enter(<<>>)
       \/ \E img \in Images : Enter(drawImage(img))
    /\ stage' = "blocks"
    /\ UNCHANGED <<outlineHeadings, headingCounter, itemsLeft, inBlock>>

(* The loop over article.blocks *)

BeginBlock ==
    /\ stage = "blocks" /\ ~inBlock /\ itemsLeft > 0
    /\ Enter(<<>>)
    /\ inBlock' = TRUE
    /\ itemsLeft' = itemsLeft - 1
    /\ UNCHANGED <<stage, outlineHeadings, headingCounter>>

\* a block with a heading: drawHeading(block.heading.trim(), Number(block.level || 2))
BeginBlockHeading ==
    /\ stage = "blocks" /\ ~inBlock /\ itemsLeft > 0
    /\ \E n \in LineCounts, level \in Levels :
          /\ Enter(drawHeading(n, level))
          /\ outlineHeadings' = Append(outlineHeadings,
                                       Heading(headingCounter + 1, level, currentPageNumber, y))
    /\ headingCounter' = headingCounter + 1
    /\ inBlock' = TRUE
    /\ itemsLeft' = itemsLeft - 1
    /\ UNCHANGED stage

Item(ops) ==
    /\ stage = "blocks" /\ inBlock /\ itemsLeft > 0
    /\ Enter(ops)
    /\ itemsLeft' = itemsLeft - 1
    /\ UNCHANGED <<stage, outlineHeadings, headingCounter, inBlock>>

ParagraphItem == \E n \in LineCounts \cup {LongLines} : Item(drawParagraph(n))

ListItem == \E items \in SeqsUpTo(LineCounts, MaxListItems) : Item(drawList(items))

QuoteItem == \E n \in LineCounts : Item(drawQuote(n))

HrItem == Item(drawHr)

\* an image already seen is skipped like one that fails to load; "catch" marks
\* the failure caught in drawImage
ImageItem ==
    \E img \in Images :
        /\ stage = "blocks" /\ inBlock /\ itemsLeft > 0
        /\ EnterAs(drawImage(img), IF img.ok THEN "enter" ELSE "catch")
        /\ itemsLeft' = itemsLeft - 1
        /\ UNCHANGED <<stage, outlineHeadings, headingCounter, inBlock>>

CaptionItem == \E n \in LineCounts : Item(drawCaption(n))

\* an exception leaves generatePDF: nothing more is drawn, nothing is saved
Raise ==
    /\ todo = <<>>
    /\ stage' = "failed"
    /\ lastOp' = "raise"
    /\ NoCode
    /\ UNCHANGED <<todo, y, currentPageNumber, numPages, outlineHeadings, headingCounter,
                   firstLineAt, itemsLeft, inBlock, outline, saved, filename, restVars>>

\* a block without content: for (const item of block.content) of undefined
BlockWithoutContent ==
    /\ stage = "blocks" /\ ~inBlock /\ itemsLeft > 0
    /\ Raise

\* a list without items: for (const itemSegs of list.items) of undefined
ListWithoutItems ==
    /\ stage = "blocks" /\ inBlock /\ itemsLeft > 0
    /\ Raise

\* drawCodeBlock(item) up to its chunk loop
DrawCodeBlock(texts) ==
    /\ stage = "blocks" /\ inBlock /\ itemsLeft > 0
    /\ todo = <<>>
    /\ \E code \in texts :
          /\ codeSrc' = Expand(code)
          /\ renderLines' = RenderLinesFrom(Expand(code), 1, SIZE_code)
    /\ codeI' = 1
    /\ drawnLines' = <<>>
    /\ todo' = <<Op("chunk", 0)>>
    /\ lastOp' = "enter"
    /\ itemsLeft' = itemsLeft - 1
    /\ UNCHANGED <<stage, y, currentPageNumber, numPages, outlineHeadings, headingCounter,
                   firstLineAt, inBlock, outline, saved, filename, restVars>>

CodeItem == DrawCodeBlock(ArticleCode)

\* the end of the body of the loop: y += 6
EndBlock ==
    /\ stage = "blocks" /\ inBlock
    /\ Enter(<<Op("adv", 600)>>)
    /\ inBlock' = FALSE
    /\ UNCHANGED <<stage, outlineHeadings, headingCounter, itemsLeft>>

(* The mentions appendix *)

Mentions ==
    /\ stage = "blocks" /\ ~inBlock
    /\ \E ms \in SeqsUpTo({1}, MaxListItems) :
          IF ms = <<>> THEN Enter(<<>>)
          ELSE Enter(<<Op("ensure", 3 * LH_body), Op("adv", 3 * LH_body)>>
                     \o drawHr
                     \o <<Op("ensure", RoundPt(SIZE_h3, 15)), Op("draw", RoundPt(SIZE_h3, 16))>>
                     \o drawList(ms))
    /\ stage' = "outline"
    /\ UNCHANGED <<outlineHeadings, headingCounter, itemsLeft, inBlock>>

(* The outline and the save *)

Finish ==
    /\ stage = "outline" /\ todo = <<>>
    /\ outline' = IF Len(outlineHeadings) > 0
                  THEN createPDFOutline(outlineHeadings, numPages) ELSE <<>>
    /\ saved' = TRUE
    /\ filename' = buildFilename(article)
    /\ stage' = "done"
    /\ lastOp' = "save"
    /\ NoCode
    /\ UNCHANGED <<todo, y, currentPageNumber, numPages, outlineHeadings, headingCounter,
                   firstLineAt, itemsLeft, inBlock, restVars>>

GenNext ==
    \/ EnsureSpaceStep \/ DrawStep \/ HeadingDrawStep \/ AdvanceStep \/ CodeChunkStep
    \/ Title \/ Subtitle \/ HeaderRule \/ MetaOrUrl \/ Hero
    \/ BeginBlock \/ BeginBlockHeading
    \/ ParagraphItem \/ ListItem \/ QuoteItem \/ HrItem \/ ImageItem \/ CaptionItem
    \/ CodeItem \/ EndBlock \/ Mentions \/ Finish
    \/ BlockWithoutContent \/ ListWithoutItems

Spec == GenInit /\ [][GenNext]_vars

----------------------------------------------------------------------------
(* The outline builder on every heading list: generatePDF from the point   *)
(* where the content has been rendered.                                    *)

HeadingLists ==
    UNION {{[k \in 1..n |-> Heading(k, lv[k], pg[k], margin + 1000 * k)] :
               lv \in [1..n -> Levels], pg \in [1..n -> 1..2]} : n \in 0..MaxHeadings}

Rendered(hs, np, a) ==
    /\ stage = "outline"
    /\ todo = <<>>
    /\ lastOp = "adv"
    /\ y = margin
    /\ currentPageNumber = np
    /\ numPages = np
    /\ outlineHeadings = hs
    /\ headingCounter = Len(hs)
    /\ firstLineAt = [id |-> 0, page |-> 0, y |-> 0]
    /\ itemsLeft = 0
    /\ inBlock = FALSE
    /\ renderLines = <<>>
    /\ codeI = 0
    /\ drawnLines = <<>>
    /\ codeSrc = <<>>
    /\ outline = <<>>
    /\ saved = FALSE
    /\ article = a
    /\ filename = <<>>
    /\ libFilename = <<>>
    /\ NoLayout /\ NoText /\ NoEmoji /\ NoContent /\ NoLibOutline /\ NoMessaging /\ NoPopup /\ NoToc /\ NoReferences

OutlineInit == \E hs \in HeadingLists, np \in 1..2 : Rendered(hs, np, GenArticle)

OutlineSpec == OutlineInit /\ [][Finish]_vars

----------------------------------------------------------------------------
(* The filename builders on every article *)

TitleChars == {"a", " ", "\n", "!", "?", "-", "_", "em-dash"}

\* "My Great Post  extra" with an em dash before "extra"
GreatPost ==
    <<"M", "y", " ", "G", "r", "e", "a", "t", " ", "P", "o", "s", "t", " ", "em-dash", " ",
      "e", "x", "t", "r", "a">>

Titles == UNION {[1..n -> TitleChars] : n \in 0..MaxTitleLen} \cup {GreatPost}

Dates == {<<>>,
          <<"2", "0", "2", "5", "-", "0", "1", "-", "0", "2">>,
          <<"2", "0", "2", "5", "-", "1", "-", "2">>}

Articles == {Article(t, st, d) : t \in Titles, st \in {<<>>, <<"s">>}, d \in Dates}

FilenameInit == \E a \in Articles : Rendered(<<>>, 1, a)

\* __ArticleDocPDF.buildFilename(article)
LibBuildFilename ==
    /\ libFilename = <<>>
    /\ libFilename' = libBuildFilename(article)
    /\ UNCHANGED <<genVars, contentVars, libOutlineVars, messagingVars, popupVars, tocVars, refVars, article, layoutVars, textVars, emojiVars>>

FilenameNext ==
    \/ Finish
    \/ LibBuildFilename

FilenameSpec == FilenameInit /\ [][FilenameNext]_vars

----------------------------------------------------------------------------
(* drawCodeBlock on every code text from every cursor position *)

StartYs == {margin + 700 * k : k \in 0..MaxStart}

\* generatePDF in the blocks of the content, the cursor at yy
AtBlock(yy) ==
    /\ stage = "blocks"
    /\ todo = <<>>
    /\ lastOp = "adv"
    /\ y = yy
    /\ currentPageNumber = 1
    /\ numPages = 1
    /\ outlineHeadings = <<>>
    /\ headingCounter = 0
    /\ firstLineAt = [id |-> 0, page |-> 0, y |-> 0]
    /\ itemsLeft = 1
    /\ inBlock = TRUE
    /\ renderLines = <<>>
    /\ codeI = 0
    /\ drawnLines = <<>>
    /\ codeSrc = <<>>
    /\ outline = <<>>
    /\ saved = FALSE
    /\ article = GenArticle
    /\ filename = <<>>
    /\ libFilename = <<>>

CodeInit == (\E yy \in StartYs : AtBlock(yy)) /\ NoLayout /\ NoText /\ NoEmoji /\ NoContent /\ NoLibOutline /\ NoMessaging /\ NoPopup /\ NoToc /\ NoReferences

CodeNext ==
    \/ DrawCodeBlock(CodeTexts)
    \/ CodeChunkStep

CodeSpec == CodeInit /\ [][CodeNext]_vars

----------------------------------------------------------------------------
(* layoutSegmentsIntoLines on every short text, alone and followed by a    *)
(* segment of another style, for narrow and wide lines                     *)

LayoutChars == {"a", "W", " ", "\n", "emoji", "ellipsis"}

LayoutTexts == UNION {[1..n -> LayoutChars] : n \in 0..MaxSegLen}

Plain(text) == Segment(text, FALSE, FALSE, FALSE, FALSE)

\* what follows the first segment: nothing, bold text, a link, code
SecondSegments ==
    {<<>>,
     <<Segment(<<"a">>, TRUE, FALSE, FALSE, FALSE)>>,
     <<Segment(<<" ">>, TRUE, FALSE, FALSE, FALSE)>>,
     <<Segment(<<"W", " ">>, FALSE, FALSE, FALSE, TRUE)>>,
     <<Segment(<<"a", "a">>, FALSE, FALSE, TRUE, FALSE)>>}

\* 7 pt, 13 pt, 25 pt, the text width of the page and 1000 pt
MaxWidths == {700000, 1300000, 2500000, textW * 1000, 1000 * 100000}

\* "Hello " followed by "world" in bold
HelloWorld ==
    <<Plain(<<"H", "e", "l", "l", "o", " ">>),
      Segment(<<"w", "o", "r", "l", "d">>, TRUE, FALSE, FALSE, FALSE)>>

LayoutInit ==
    /\ AtBlock(margin)
    /\ \/ \E t \in LayoutTexts, more \in SecondSegments : segments = <<Plain(t)>> \o more
       \/ segments = HelloWorld
    /\ maxWidth \in MaxWidths
    /\ lines = <<>>
    /\ laidOut = FALSE
    /\ NoText /\ NoEmoji /\ NoContent /\ NoLibOutline /\ NoMessaging /\ NoPopup /\ NoToc /\ NoReferences

\* const lines = layoutSegmentsIntoLines(segments, maxWidth, SIZES.body)
LayoutSegments ==
    /\ ~laidOut
    /\ lines' = layoutSegmentsIntoLines(segments, maxWidth, SIZE_body)
    /\ laidOut' = TRUE
    /\ UNCHANGED <<genVars, contentVars, libOutlineVars, messagingVars, popupVars, tocVars, refVars, article, libFilename, segments, maxWidth, textVars, emojiVars>>

LayoutSpec == LayoutInit /\ [][LayoutSegments]_vars

----------------------------------------------------------------------------
(* normalizeUnicodeForPDF and splitTokenIntoFragments on every short string *)

RawChars == {"a", " ", "emoji", "star", "ellipsis", "em-dash", "guillemet", "e-acute",
             "math-A", "combining-acute"}

RawTexts == UNION {[1..n -> RawChars] : n \in 0..MaxRawLen}

TextInit ==
    /\ AtBlock(margin)
    /\ NoLayout /\ NoEmoji /\ NoContent /\ NoLibOutline /\ NoMessaging /\ NoPopup /\ NoToc /\ NoReferences
    /\ rawText \in RawTexts
    /\ once = <<>>
    /\ twice = <<>>
    /\ frags = <<>>

\* normalizeUnicodeForPDF(text)
Normalize ==
    /\ once = <<>>
    /\ once' = <<normalizeUnicodeForPDF(rawText)>>
    /\ UNCHANGED <<genVars, contentVars, libOutlineVars, messagingVars, popupVars, tocVars, refVars, article, libFilename, layoutVars, emojiVars, rawText, twice, frags>>

\* normalizeUnicodeForPDF of a normalized string, as measure and drawFragments do
NormalizeAgain ==
    /\ once # <<>> /\ twice = <<>>
    /\ twice' = <<normalizeUnicodeForPDF(once[1])>>
    /\ UNCHANGED <<genVars, contentVars, libOutlineVars, messagingVars, popupVars, tocVars, refVars, article, libFilename, layoutVars, emojiVars, rawText, once, frags>>

\* splitTokenIntoFragments(text, seg, size), as drawTextWithEmojis calls it
SplitToken ==
    /\ frags = <<>>
    /\ frags' = <<splitTokenIntoFragments(rawText, Plain(rawText), SIZE_body)>>
    /\ UNCHANGED <<genVars, contentVars, libOutlineVars, messagingVars, popupVars, tocVars, refVars, article, libFilename, layoutVars, emojiVars, rawText, once, twice>>

TextNext ==
    \/ Normalize
    \/ NormalizeAgain
    \/ SplitToken

TextSpec == TextInit /\ [][TextNext]_vars

----------------------------------------------------------------------------
(* getEmojiDataUrl on every sequence of requests *)

EmojiSegments ==
    {Segment(<<>>, b, i, m, FALSE) : b \in BOOLEAN, i \in BOOLEAN, m \in BOOLEAN}

EmojiSizes == {SIZE_body, SIZE_h2}

EmojiInit ==
    /\ AtBlock(margin)
    /\ NoLayout /\ NoText /\ NoEmoji /\ NoContent /\ NoLibOutline /\ NoMessaging /\ NoPopup /\ NoToc /\ NoReferences

\* function getEmojiDataUrl(emoji, seg, size)
GetEmojiDataUrl ==
    /\ requested.calls < MaxRequests
    /\ \E emoji \in Emoji, seg \in EmojiSegments, size \in EmojiSizes :
          LET key == emojiKey(emoji, seg, size) IN
          /\ requested' = [calls |-> requested.calls + 1,
                           keys |-> requested.keys
                                      \cup {<<emoji, styleFromSeg(seg).family,
                                              styleFromSeg(seg).style, size>>}]
          /\ IF key \in dataUrlByKey
             THEN UNCHANGED <<dataUrlByKey, rasterized>>
             ELSE /\ rasterized' = rasterized + 1
                  /\ dataUrlByKey' = dataUrlByKey \cup {key}
    /\ UNCHANGED <<genVars, contentVars, libOutlineVars, messagingVars, popupVars, tocVars, refVars, article, libFilename, layoutVars, textVars>>

EmojiSpec == EmojiInit /\ [][GetEmojiDataUrl]_vars

----------------------------------------------------------------------------
(* collectReferences on every short list of mentions, with and without a   *)
(* title and a URL, and on the list of tests/references.test.js            *)

MentionUrls == {"https://example.com/a", "https://example.com/b", ""}

MentionTitles == {"One", ""}

MentionKinds == [title : MentionTitles, url : MentionUrls] \cup [title : MentionTitles] \cup {Null}

MentionLists == UNION {[1..n -> MentionKinds] : n \in 0..MaxMentions}

\* const article = { mentions: [...] } of the test
TestMentions ==
    <<[title |-> "One", url |-> "https://example.com/a"],
      [title |-> "Two", url |-> "https://example.com/b"],
      [title |-> "Dupe", url |-> "https://example.com/a"],
      [title |-> "", url |-> ""]>>

\* the articles: with mentions, without the property, null
RefArticles ==
    {[mentions |-> m] : m \in MentionLists \cup {TestMentions}} \cup {[title |-> "One"], Null}

ReferencesInit ==
    /\ AtBlock(margin)
    /\ NoLayout /\ NoText /\ NoEmoji /\ NoContent /\ NoLibOutline /\ NoMessaging /\ NoPopup /\ NoToc
    /\ refArticle \in RefArticles
    /\ references = <<>>
    /\ collected = FALSE

\* const refs = __ArticleDocReferences.collectReferences(article)
CollectReferences ==
    /\ ~collected
    /\ references' = collectReferences(refArticle)
    /\ collected' = TRUE
    /\ UNCHANGED <<genVars, contentVars, libOutlineVars, messagingVars, popupVars, tocVars, article, libFilename, layoutVars, textVars, emojiVars, refArticle>>

ReferencesSpec == ReferencesInit /\ [][CollectReferences]_vars

----------------------------------------------------------------------------
(* Table of contents (libs/toc.global.js): buildTOC on every short list of  *)
(* headings, with and without a maxLevel, and on the list of               *)
(* tests/toc.test.js                                                       *)

\* var ml = (typeof maxLevel === 'number' && maxLevel >= 1) ? maxLevel : 3
TocMaxLevel(args) ==
    IF "maxLevel" \in DOMAIN args /\ args.maxLevel >= 1 THEN args.maxLevel ELSE 3

\* { type: 'paragraph', text: indent + it.text + ' ........ ' + (it.page || 1) },
\* the indent as the number of its '  '
TocBlock(it) ==
    [type |-> "paragraph",
     text |-> <<it.level - 1, it.text, " ........ ", IF it.page = 0 THEN 1 ELSE it.page>>]

\* the section of the headings kept
TocSection(items) ==
    IF items = <<>> THEN Null
    ELSE [id |-> "toc", level |-> 1, heading |-> "Table of Contents",
          blocks |-> [k \in 1..Len(items) |-> TocBlock(items[k])]]

\* a builder that keeps the headings above maxLevel only
buildTOCAbove(args) ==
    IF "headings" \notin DOMAIN args \/ args.headings = <<>> THEN Null
    ELSE TocSection(SelectSeq(args.headings, LAMBDA h : h.level < TocMaxLevel(args)))

\* function buildTOC(headings, maxLevel)
buildTOC(args) ==
    IF "headings" \notin DOMAIN args \/ args.headings = <<>> THEN Null
    ELSE TocSection(SelectSeq(args.headings, LAMBDA h : h.level <= TocMaxLevel(args)))

TocHeadingKinds == [level : 1..4, text : {"Intro", "Part A"}, page : {0, 2}]

TocHeadingLists == UNION {[1..n -> TocHeadingKinds] : n \in 0..MaxTocHeadings}

\* const headings = [...] of the test
TestHeadings ==
    <<[level |-> 1, text |-> "Intro", page |-> 1],
      [level |-> 2, text |-> "Part A", page |-> 2],
      [level |-> 3, text |-> "Detail", page |-> 3],
      [level |-> 4, text |-> "Too deep", page |-> 4]>>

\* the calls: with a maxLevel, without one, without headings
TocCalls ==
    [headings : TocHeadingLists \cup {TestHeadings}, maxLevel : 0..4]
        \cup [headings : TocHeadingLists \cup {TestHeadings}]
        \cup {Null}

TocInit ==
    /\ AtBlock(margin)
    /\ NoLayout /\ NoText /\ NoEmoji /\ NoContent /\ NoLibOutline /\ NoMessaging /\ NoPopup /\ NoReferences
    /\ tocArgs \in TocCalls
    /\ toc = Null
    /\ tocBuilt = FALSE

\* const toc = __ArticleDocTOC.buildTOC(headings, 3)
BuildTOC ==
    /\ ~tocBuilt
    /\ toc' = buildTOC(tocArgs)
    /\ tocBuilt' = TRUE
    /\ UNCHANGED <<genVars, contentVars, libOutlineVars, messagingVars, popupVars, article, libFilename, layoutVars, textVars, emojiVars, refVars, tocArgs>>

TocSpec == TocInit /\ [][BuildTOC]_vars

----------------------------------------------------------------------------
(* The popup: the click handler of the convert button and the one-time     *)
(* handler of the Force Generate button                                    *)

\* button.cloneNode(true): the attributes and the text are copied, the
\* listeners added with addEventListener are not
cloneNode(b) == [disabled |-> b.disabled, text |-> b.text, listener |-> "none"]

\* the end of an attempt: what is left of the handler runs to its return
EndAttempt(how) ==
    /\ popupPc' = "idle"
    /\ ended' = Append(ended, how)

\* a click on the button shown; a disabled button gets no click event
Click ==
    /\ ~button.disabled
    /\ Len(ended) < MaxAttempts
    /\ \/ /\ button.listener = "convert"
          \* convertBtn.disabled = true; await queryTabs(...)
          /\ button' = [button EXCEPT !.disabled = TRUE]
          /\ popupPc' = "queryTabs"
       \/ /\ button.listener = "onForce"
          \* forceBtn.removeEventListener, originalButton = forceBtn.cloneNode(true),
          \* replaceChild, convertBtn = originalButton, text and disabled restored
          /\ button' = [cloneNode(button) EXCEPT !.text = "Generate Clean PDF", !.disabled = TRUE]
          /\ popupPc' = "forceExtract"
    /\ UNCHANGED ended
    /\ UNCHANGED <<genVars, restOfPopup>>

\* const tabs = await queryTabs(...); if (!tab) {...; return}
QueryTabs ==
    /\ popupPc = "queryTabs"
    /\ \/ /\ button' = [button EXCEPT !.disabled = FALSE]
          /\ EndAttempt("no tab")
       \/ /\ popupPc' = "extract"
          /\ UNCHANGED <<button, ended>>
    /\ UNCHANGED <<genVars, restOfPopup>>

\* article = await sendMessageToTab(tab.id, { action: "extractArticle" }), a
\* rejection turned into { error }; if (!article || article.error) await 3 s
Extract ==
    /\ popupPc = "extract"
    /\ popupPc' \in {"wait", "generate"}
    /\ UNCHANGED <<button, ended>>
    /\ UNCHANGED <<genVars, restOfPopup>>

\* after the 3 s: the button is replaced by a clone named Force Generate,
\* enabled, with onForce as its click listener; return
EnableForce ==
    /\ popupPc = "wait"
    /\ button' = [cloneNode(button) EXCEPT !.text = "Force Generate", !.disabled = FALSE,
                                          !.listener = "onForce"]
    /\ EndAttempt("extraction failed")
    /\ UNCHANGED <<genVars, restOfPopup>>

\* await generatePDF(article); convertBtn.disabled = false, in the try and in
\* its catch
Generate ==
    /\ popupPc = "generate"
    /\ button' = [button EXCEPT !.disabled = FALSE]
    /\ \E how \in {"success", "exception"} : EndAttempt(how)
    /\ UNCHANGED <<genVars, restOfPopup>>

\* forced = await sendMessageToTab(tab.id, { action: "forceExtractArticle" });
\* if (!forced || forced.error) { originalButton.disabled = false; return }
ForceExtract ==
    /\ popupPc = "forceExtract"
    /\ \/ /\ button' = [button EXCEPT !.disabled = FALSE]
          /\ EndAttempt("forced extraction failed")
       \/ /\ popupPc' = "forceGenerate"
          /\ UNCHANGED <<button, ended>>
    /\ UNCHANGED <<genVars, restOfPopup>>

\* await generatePDF(forced); originalButton.disabled = false; onForce has no
\* try around it: an exception ends the handler where it is raised
ForceGenerate ==
    /\ popupPc = "forceGenerate"
    /\ \/ /\ button' = [button EXCEPT !.disabled = FALSE]
          /\ EndAttempt("success")
       \/ /\ UNCHANGED button
          /\ EndAttempt("exception")
    /\ UNCHANGED <<genVars, restOfPopup>>

PopupInit ==
    /\ AtBlock(margin)
    /\ NoLayout /\ NoText /\ NoEmoji /\ NoContent /\ NoLibOutline /\ NoMessaging /\ NoToc /\ NoReferences
    /\ button = [disabled |-> FALSE, text |-> "Generate Clean PDF", listener |-> "convert"]
    /\ popupPc = "idle"
    /\ ended = <<>>

PopupNext ==
    \/ Click
    \/ QueryTabs
    \/ Extract
    \/ EnableForce
    \/ Generate
    \/ ForceExtract
    \/ ForceGenerate

PopupSpec == PopupInit /\ [][PopupNext]_vars

----------------------------------------------------------------------------
(* sendMessageToTab (popup.js and libs/messaging.global.js): one call, its *)
(* attempts, their callbacks and timers, and the injections it starts      *)

Errors == {"Receiving end does not exist", "No tab with id"}

\* function shouldTryInject(msg)
shouldTryInject(msg) == msg = "Receiving end does not exist"

\* an attempt whose message was sent: its callback is pending and its timer set
Attempt(hasRetried) ==
    [hasRetried |-> hasRetried, callback |-> "pending", timer |-> "set", finished |-> FALSE]

\* a timeout handler that gives up silently on the retried attempt
onTimeoutSilent(hasRetried, finished) ==
    IF finished \/ hasRetried THEN "nothing" ELSE "inject"

\* the function given to setTimeout: what it does
onTimeout(hasRetried, finished) ==
    IF finished THEN "nothing"
    ELSE IF ~hasRetried THEN "inject"
    ELSE "rejected"

\* the callback of chrome.tabs.sendMessage: what it does after clearTimeout
onResponse(hasRetried, err) ==
    IF err = "none" THEN "resolved"
    ELSE IF ~hasRetried /\ shouldTryInject(err) THEN "inject"
    ELSE "rejected"

\* resolve(...), reject(...), ensureContentScripts(tabId), or nothing; a settled
\* promise stays as it is
Do(what) ==
    /\ injections' = IF what = "inject" THEN Append(injections, "providers.js") ELSE injections
    /\ settled' = IF what \in {"resolved", "rejected"} /\ settled = "pending" THEN what ELSE settled

\* clearTimeout of the timer of attempt k, if there is one and it has not fired
clearTimeout(as, k) ==
    IF k \in 1..Len(as) /\ as[k].timer = "set" THEN [as EXCEPT ![k].timer = "cleared"] ELSE as

\* the callback of the i-th attempt is called, with a response or with
\* chrome.runtime.lastError set; popup.js clears the timer in timeoutId, the
\* library the timer of the attempt itself
Response(i) ==
    /\ i \in 1..Len(attempts)
    /\ attempts[i].callback = "pending"
    /\ \E err \in {"none"} \cup Errors :
          /\ attempts' = [clearTimeout(attempts, IF sharedTimer THEN timeoutId ELSE i)
                             EXCEPT ![i].callback = "called",
                                    ![i].finished = (err = "none")]
          /\ Do(onResponse(attempts[i].hasRetried, err))
    /\ UNCHANGED <<sharedTimer, timeoutId>>
    /\ UNCHANGED <<genVars, restOfMessaging>>

\* the 5 s of the i-th attempt are over
Timeout(i) ==
    /\ i \in 1..Len(attempts)
    /\ attempts[i].timer = "set"
    /\ attempts' = [attempts EXCEPT ![i].timer = "fired"]
    /\ Do(onTimeout(attempts[i].hasRetried, attempts[i].finished))
    /\ UNCHANGED <<sharedTimer, timeoutId>>
    /\ UNCHANGED <<genVars, restOfMessaging>>

\* executeScriptMV2(tabId, "providers.js").catch(() => {}): done or failed,
\* content.js is injected next
ProvidersInjected(j) ==
    /\ j \in 1..Len(injections)
    /\ injections[j] = "providers.js"
    /\ injections' = [injections EXCEPT ![j] = "content.js"]
    /\ UNCHANGED <<sharedTimer, timeoutId, attempts, settled>>
    /\ UNCHANGED <<genVars, restOfMessaging>>

\* executeScriptMV2(tabId, "content.js"): done, then 100 ms to wait; or failed,
\* and the catch of the caller rejects
ContentInjected(j) ==
    /\ j \in 1..Len(injections)
    /\ injections[j] = "content.js"
    /\ \/ /\ injections' = [injections EXCEPT ![j] = "100 ms"]
          /\ UNCHANGED settled
       \/ /\ injections' = [injections EXCEPT ![j] = "failed"]
          /\ settled' = IF settled = "pending" THEN "rejected" ELSE settled
    /\ UNCHANGED <<sharedTimer, timeoutId, attempts>>
    /\ UNCHANGED <<genVars, restOfMessaging>>

\* .then(() => attempt(true)): the message is sent again and a timer set, or
\* sendMessage throws and the catch of attempt rejects
Retry(j) ==
    /\ j \in 1..Len(injections)
    /\ injections[j] = "100 ms"
    /\ injections' = [injections EXCEPT ![j] = "done"]
    /\ \/ /\ attempts' = Append(attempts, Attempt(TRUE))
          /\ timeoutId' = Len(attempts) + 1
          /\ UNCHANGED settled
       \/ /\ settled' = IF settled = "pending" THEN "rejected" ELSE settled
          /\ UNCHANGED <<attempts, timeoutId>>
    /\ UNCHANGED sharedTimer
    /\ UNCHANGED <<genVars, restOfMessaging>>

\* attempt(false) in the executor of the promise: the message is sent, or
\* sendMessage throws an error that calls for an injection, or another error
MessagingInit ==
    /\ AtBlock(margin)
    /\ NoLayout /\ NoText /\ NoEmoji /\ NoContent /\ NoLibOutline /\ NoPopup /\ NoToc /\ NoReferences
    /\ sharedTimer \in BOOLEAN
    /\ \/ attempts = <<Attempt(FALSE)>> /\ timeoutId = 1 /\ injections = <<>> /\ settled = "pending"
       \/ attempts = <<>> /\ timeoutId = 0 /\ injections = <<"providers.js">> /\ settled = "pending"
       \/ attempts = <<>> /\ timeoutId = 0 /\ injections = <<>> /\ settled = "rejected"

Timers == \E i \in 1..MaxSends : Timeout(i)

Injection == \E j \in 1..MaxSends : ProvidersInjected(j) \/ ContentInjected(j) \/ Retry(j)

MessagingNext ==
    \/ \E i \in 1..MaxSends : Response(i)
    \/ Timers
    \/ Injection

MessagingSpec == MessagingInit /\ [][MessagingNext]_vars

\* timers fire and the callbacks of executeScript are called; the callback of
\* sendMessage may never be
MessagingFairSpec == MessagingSpec /\ WF_vars(Timers) /\ WF_vars(Injection)

----------------------------------------------------------------------------
(* createPDFOutline of popup.js and createOutline of libs/pdf.global.js on  *)
(* the same headings and the same document                                 *)

\* __ArticleDocPDF.createOutline(pdf, outlineHeadings) on a document without
\* the outline plugin
LibCreateOutline ==
    /\ libOutline = <<>>
    /\ libOutline' = <<createOutline(outlineHeadings, numPages)>>
    /\ UNCHANGED <<genVars, restOfLibOutline>>

RefineNext ==
    \/ Finish
    \/ LibCreateOutline

RefineSpec == OutlineInit /\ [][RefineNext]_vars

----------------------------------------------------------------------------
(* The content script (content.js): the onMessage listener on a page, its  *)
(* choice of the article container and the blocks it builds                *)

\* const selectors = [...]: the first nine are CSS selectors; the last two,
\* "h1.closest(article, main, section, div)" and
\* "findBestArticleContainerHeuristic()", are strings that are no selectors
NumSelectors == 11

IsSelector(i) == i <= 9

\* document.querySelector(selectors[i]) on the page
querySelector(page, i) ==
    IF ~IsSelector(i) THEN "SyntaxError"
    ELSE IF i \in page.matches THEN "element"
    ELSE "null"

\* for (let i = 0; i < selectors.length && !originalArticle; i++) {...}: every
\* entry is a string, so every entry goes to document.querySelector
RECURSIVE FindContainer(_, _)
FindContainer(page, i) ==
    IF i > NumSelectors THEN "null"
    ELSE IF querySelector(page, i) = "null" THEN FindContainer(page, i + 1)
    ELSE querySelector(page, i)

\* INTRO_HEADING_RE.test(headingText)
IsIntroHeading(text) == text = "Introduction"

IsHeadingTag(tag) == tag \in {"H2", "H3"}

\* if (current.content.length) blocks.push(current)
pushBlock(blocks, current) == IF current.content # <<>> THEN Append(blocks, current) ELSE blocks

\* for (const el of nodes) {...} and the push after it
RECURSIVE BlocksFrom(_, _, _)
BlocksFrom(nodes, blocks, current) ==
    IF nodes = <<>> THEN pushBlock(blocks, current)
    ELSE LET el == Head(nodes) IN
         IF IsHeadingTag(el.tag)
         THEN IF IsIntroHeading(el.text) THEN BlocksFrom(Tail(nodes), blocks, current)
              ELSE BlocksFrom(Tail(nodes), pushBlock(blocks, current),
                              [heading |-> el.text, level |-> IF el.tag = "H2" THEN 2 ELSE 3,
                               content |-> <<>>])
         ELSE IF el.tag = "P"
         THEN BlocksFrom(Tail(nodes), blocks,
                         IF el.text = "" THEN current
                         ELSE [current EXCEPT !.content = Append(@, [type |-> "paragraph"])])
         ELSE BlocksFrom(Tail(nodes), blocks,
                         [current EXCEPT !.content = Append(@, [type |-> "hr"])])

\* const blocks = []; let current = { heading: "", level: 0, content: [] }
buildBlocks(nodes) == BlocksFrom(nodes, <<>>, [heading |-> "", level |-> 0, content |-> <<>>])

\* the nodes of the container: headings, one named Introduction, paragraphs,
\* one without text, and rules
NodeKinds ==
    [tag : {"H2", "H3"}, text : {"Setup", "Introduction"}]
        \cup [tag : {"P"}, text : {"Setup", ""}]
        \cup {[tag |-> "HR", text |-> ""]}

\* a page: the selectors that match on it, what its provider says of the
\* action, and the nodes of its container
Pages ==
    [matches : {{}, {1}, {8}}, provider : {"none", "allows", "denies"},
     nodes : UNION {[1..n -> NodeKinds] : n \in 0..MaxNodes}]

ContentInit ==
    /\ AtBlock(margin)
    /\ NoLayout /\ NoText /\ NoEmoji /\ NoLibOutline /\ NoMessaging /\ NoPopup /\ NoToc
    /\ NoReferences
    /\ contentPage \in Pages
    /\ contentMsg \in {"extractArticle", "forceExtractArticle"}
    /\ responses = <<>>
    /\ listener = "pending"

\* chrome.runtime.onMessage.addListener((msg, sender, sendResponse) => {...})
\* for msg.action extractArticle or forceExtractArticle
OnMessage ==
    /\ listener = "pending"
    /\ IF contentMsg # "forceExtractArticle" /\ contentPage.provider = "denies"
       THEN /\ responses' = Append(responses, [error |-> "Action not allowed for this site"])
            /\ listener' = "returned"
       ELSE IF FindContainer(contentPage, 1) = "SyntaxError"
       THEN /\ listener' = "threw"
            /\ UNCHANGED responses
       ELSE IF FindContainer(contentPage, 1) = "null"
       THEN /\ responses' = Append(responses, [error |-> "No article found"])
            /\ listener' = "returned"
       ELSE /\ responses' = Append(responses, [blocks |-> buildBlocks(contentPage.nodes)])
            /\ listener' = "returned"
    /\ UNCHANGED <<contentPage, contentMsg>>
    /\ UNCHANGED <<genVars, restOfContent>>

ContentSpec == ContentInit /\ [][OnMessage]_vars

----------------------------------------------------------------------------
(* Claims *)

\* the cursor lies in the page once ensureSpace has returned
C1_CursorInPage == lastOp = "ensure" => (margin <= y /\ y <= pageH - margin)

\* C1: immediately after every ensureSpace call the cursor lies in
\* [margin, pageH - margin], and no step of a generation decreases the page count
C1_EnsureSpace ==
    /\ []C1_CursorInPage
    /\ [][numPages' >= numPages /\ currentPageNumber' >= currentPageNumber]_vars

\* an ensureSpace call that started a new page has just returned
C1_Witness == lastOp = "ensure" /\ y = margin /\ numPages = 2 /\ currentPageNumber = 2

\* C2: every page of the document is appended by ensureSpace
C2_SolePageBreak == [][numPages' # numPages => lastOp' = "ensure"]_vars

\* drawCodeBlock has appended a page
C2_Witness ==
    /\ lastOp = "chunk" /\ todo = <<>>
    /\ numPages = currentPageNumber + 1
    /\ drawnLines = [k \in 1..Len(renderLines) |-> k]

\* C3: the page counter of the engine is the number of pages of the document
C3_PageCounter == currentPageNumber = numPages

\* a document of two pages was saved with the page counter at 1
C3_Witness == saved /\ numPages = 2 /\ currentPageNumber = 1

\* C4: the page and y recorded for a heading are where its first line is drawn
C4_HeadingPosition ==
    firstLineAt.id # 0 =>
        /\ outlineHeadings[firstLineAt.id].page = firstLineAt.page
        /\ outlineHeadings[firstLineAt.id].y = firstLineAt.y

\* a heading recorded on one page has its first line on the next, the page
\* counter being the number of pages
C4_Witness ==
    /\ firstLineAt.id # 0
    /\ currentPageNumber = numPages
    /\ outlineHeadings[firstLineAt.id].page + 1 = firstLineAt.page
    /\ firstLineAt.y = margin

\* the nodes of the outline before node k with a level strictly smaller
SmallerBefore(k) == {j \in 1..(k - 1) : outline[j].level < outline[k].level}

Range(s) == {s[k] : k \in 1..Len(s)}

SetMax(S) == CHOOSE m \in S : \A x \in S : x <= m

SetMin(S) == CHOOSE m \in S : \A x \in S : m <= x

\* the elements of s at the indices of I, in order
RECURSIVE SelectSeqIdx(_, _)
SelectSeqIdx(s, I) ==
    IF I = {} THEN <<>>
    ELSE SelectSeqIdx(s, I \ {SetMax(I)}) \o <<s[SetMax(I)]>>

Resolved == {i \in 1..Len(outlineHeadings) : PageInfoOK(numPages, outlineHeadings[i].page)}

\* C5: every node is a child of the nearest preceding node of strictly smaller
\* level, or a root if there is none; the nodes are the headings whose page
\* resolves, in render order; levels 2,3,2 give roots 1 and 3 with 2 under 1
C5_NearestSmallerParent ==
    stage = "done" =>
        /\ {outline[k].objId : k \in 1..Len(outline)} = Resolved
        /\ \A j, k \in 1..Len(outline) : j < k => outline[j].objId < outline[k].objId
        /\ \A k \in 1..Len(outline) :
              /\ outline[k].parent =
                    IF SmallerBefore(k) = {} THEN 0
                    ELSE outline[SetMax(SmallerBefore(k))].objId
              /\ outline[k].parent # 0 =>
                    \E j \in 1..(k - 1) : /\ outline[j].objId = outline[k].parent
                                          /\ outline[j].level < outline[k].level
        /\ ([k \in 1..Len(outline) |-> outline[k].level] = <<2, 3, 2>>
               => [k \in 1..Len(outline) |-> outline[k].parent]
                     = <<0, outline[1].objId, 0>>)

\* the outline of headings of levels 2,3,2 has been built
C5_Witness ==
    /\ stage = "done"
    /\ [k \in 1..Len(outline) |-> outline[k].level] = <<2, 3, 2>>
    /\ Len(outlineHeadings) = 3

\* C6 as stated: the children of one parent, and the roots, share one level
C6_SiblingsSameLevel ==
    stage = "done" =>
        \A j, k \in 1..Len(outline) :
            outline[j].parent = outline[k].parent => outline[j].level = outline[k].level

\* C6 amended: among the children of one parent, and among the roots, a later
\* node never has a greater level than an earlier one
C6_SiblingsNonIncreasing ==
    stage = "done" =>
        \A j, k \in 1..Len(outline) :
            (j < k /\ outline[j].parent = outline[k].parent)
                => outline[j].level >= outline[k].level

\* two children of one heading with different levels
C6_Witness ==
    /\ stage = "done"
    /\ \E j, k \in 1..Len(outline) :
          /\ j < k
          /\ outline[j].parent = outline[k].parent
          /\ outline[j].parent # 0
          /\ outline[j].level > outline[k].level

\* the tokens of the segments, in reading order
RECURSIVE ChunkTokens(_)
ChunkTokens(chunks) ==
    IF chunks = <<>> THEN <<>>
    ELSE (IF Head(chunks) = <<"\n">> THEN <<>>
          ELSE combineSingleCharRuns(MatchTokens(Head(chunks), <<>>, FALSE)))
         \o ChunkTokens(Tail(chunks))

RECURSIVE SegmentTokens(_)
SegmentTokens(segs) ==
    IF segs = <<>> THEN <<>>
    ELSE ChunkTokens(SplitNewlines(normalizeUnicodeForPDF(Head(segs).text), <<>>))
         \o SegmentTokens(Tail(segs))

\* the texts of the parts of the lines, in reading order
RECURSIVE PartTexts(_)
PartTexts(ls) ==
    IF ls = <<>> THEN <<>>
    ELSE [k \in 1..Len(Head(ls)) |-> Head(ls)[k].text] \o PartTexts(Tail(ls))

Visible(toks) == SelectSeq(toks, LAMBDA t : ~IsSpaceToken(t))

\* C7: a line returned by layoutSegmentsIntoLines is no wider than maxWidth
\* unless it is a single token wider than maxWidth, and the visible tokens of
\* the segments are, whole and in order, the visible parts of the lines
C7_LineWidth ==
    laidOut =>
        /\ \A k \in 1..Len(lines) :
              \/ SumWidths(lines[k]) <= maxWidth
              \/ Len(lines[k]) = 1 /\ lines[k][1].width > maxWidth
        /\ Visible(PartTexts(lines)) = Visible(SegmentTokens(segments))

\* a text without newlines is wrapped into three lines, the second a single
\* token wider than maxWidth
C7_Witness ==
    /\ laidOut
    /\ \A k \in 1..Len(segments) : \A j \in 1..Len(segments[k].text) : segments[k].text[j] # "\n"
    /\ Len(lines) = 3
    /\ SumWidths(lines[1]) <= maxWidth
    /\ Len(lines[2]) = 1
    /\ lines[2][1].width > maxWidth
    /\ SumWidths(lines[3]) <= maxWidth

\* C8: a code line whose longest token overflows the column at the base size
\* gets a size below the base size, not below the minimum, at which it fits
C8_ShrunkLineFits ==
    \A k \in 1..Len(renderLines) :
        LET line == codeSrc[renderLines[k].line] IN
        Longest(line, SIZE_code) > textW =>
            /\ renderLines[k].size < SIZE_code
            /\ renderLines[k].size >= minSize
            /\ Longest(line, renderLines[k].size) <= textW

\* a line after a shrunk line keeps the base size with a token wider than the
\* column at that size
C8_Witness ==
    \E k \in 2..Len(renderLines) :
        /\ renderLines[k - 1].size < SIZE_code
        /\ renderLines[k].line = renderLines[k - 1].line + 1
        /\ renderLines[k].size = SIZE_code
        /\ Longest(codeSrc[renderLines[k].line], SIZE_code) > textW

\* the lines drawn are the first codeI - 1 render lines, each once and in order
C9_DrawnInOrder ==
    renderLines # <<>> =>
        /\ drawnLines = [k \in 1..(codeI - 1) |-> k]
        /\ codeI <= Len(renderLines) + 1
        /\ (todo = <<>> => codeI = Len(renderLines) + 1)

\* C9: while a code block is drawn the render lines are drawn each once and in
\* order, the block ends with all of them drawn, and every iteration of the
\* chunk loop draws at least one more line, so that the loop terminates
C9_ChunkProgress ==
    /\ []C9_DrawnInOrder
    /\ [][lastOp' = "chunk" => (codeI' > codeI /\ Len(drawnLines') > Len(drawnLines))]_vars

\* a code block drawn in several chunks and over a page break
C9_Witness ==
    /\ lastOp = "chunk" /\ todo = <<>>
    /\ Len(renderLines) > 1
    /\ drawnLines = [k \in 1..Len(renderLines) |-> k]
    /\ numPages > 1

\* C10 as stated: a title that sanitizes to the empty string gives "article.pdf",
\* and so does the title "!!!" without a published date
C10_EmptyTitleDefault ==
    saved =>
        /\ sanitizeTitleForFilename(article.title) = <<>>
              => filename = Str_article \o Str_pdf
        /\ (article.title = <<"!", "!", "!">> /\ article.publishedDate = <<>>)
              => filename = Str_article \o Str_pdf

\* an article with a published date and the title "?" was saved as
\* "2025-01-02-.pdf"
C10_Witness ==
    /\ saved
    /\ article.title = <<"?">>
    /\ IsYMD(article.publishedDate)
    /\ filename = article.publishedDate \o <<"-">> \o Str_pdf

\* the title up to its first separator
C11_Cut(s) ==
    LET seps == {k \in 1..Len(s) : s[k] \in Separators}
    IN  IF seps = {} THEN s ELSE SubSeq(s, 1, SetMin(seps) - 1)

\* the title with, on each of its lines, the first separator and what follows it
\* on that line removed
C11_CutLines(s) ==
    SelectSeqIdx(s, {k \in 1..Len(s) :
        \/ s[k] = "\n"
        \/ ~\E j \in 1..k : /\ s[j] \in Separators
                            /\ \A i \in j..k : s[i] # "\n"})

\* whitespace to underscores, illegal characters removed, runs of underscores
\* collapsed, leading and trailing underscores removed
C11_Clean(s) ==
    LET u == [k \in 1..Len(s) |-> IF s[k] \in Whitespace THEN "_" ELSE s[k]]
        v == SelectSeq(u, LAMBDA c : c \notin Illegal)
        w == SelectSeqIdx(v, {k \in 1..Len(v) : v[k] # "_" \/ (k > 1 /\ v[k - 1] # "_")})
    IN  IF w # <<>> /\ w[Len(w)] = "_" THEN SubSeq(w, 1, Len(w) - 1) ELSE w

C11_Name(date, safe) ==
    IF IsYMD(date) THEN date \o <<"-">> \o safe \o Str_pdf ELSE safe \o Str_pdf

C12_Text == ConcatAll([k \in 1..Len(segments) |-> normalizeUnicodeForPDF(segments[k].text)])

C12_Pieces ==
    LET t == C12_Text
        cuts == {0, Len(t) + 1} \cup {k \in 1..Len(t) : t[k] = "\n"}
        at == SelectSeqIdx([k \in 1..(Len(t) + 2) |-> k - 1], {k + 1 : k \in cuts})
    IN  [i \in 1..(Len(at) - 1) |-> SubSeq(t, at[i] + 1, at[i + 1] - 1)]

NoSpace(s) == SelectSeq(s, LAMBDA c : c \notin Whitespace)

\* the pieces that hold more than whitespace
C12_Visible == SelectSeq(C12_Pieces, LAMBDA piece : NoSpace(piece) # <<>>)

\* the characters of a line, whitespace apart
C12_LineText(line) == NoSpace(ConcatAll(PartTexts(<<line>>)))

\* C12 as stated: a blank line between two consecutive newlines gives an empty
\* line entry in the lines returned
C12_BlankLineEntry ==
    (laidOut /\ \E k \in 1..(Len(C12_Text) - 1) : C12_Text[k] = "\n" /\ C12_Text[k + 1] = "\n")
        => \E k \in 1..Len(lines) : lines[k] = <<>>

\* C12 amended: every newline ends the current line, so that a line holds text
\* of one piece between newlines only, and without wrapping the lines are the
\* pieces that hold more than whitespace; a blank line gives no line entry: no
\* line returned is empty
C12_NewlineEndsLine ==
    laidOut =>
        /\ \A k \in 1..Len(lines) : lines[k] # <<>>
        /\ \A k \in 1..Len(lines) :
              \E i \in 1..Len(C12_Visible) :
                  LET piece == NoSpace(C12_Visible[i])
                      n == Len(C12_LineText(lines[k]))
                  IN  \E o \in 0..(Len(piece) - n) :
                          SubSeq(piece, o + 1, o + n) = C12_LineText(lines[k])
        /\ maxWidth = textW * 1000 =>
              /\ Len(lines) = Len(C12_Visible)
              /\ \A k \in 1..Len(lines) : C12_LineText(lines[k]) = NoSpace(C12_Visible[k])

\* a text with a blank line between two lines of text gave two lines
C12_Witness ==
    /\ laidOut
    /\ segments[1].text = <<"a", "\n", "\n", "W">>
    /\ Len(segments) = 1
    /\ Len(lines) = 2
    /\ maxWidth = textW * 1000

\* C13: the contents of the fragments of a token, concatenated in order, are the
\* normalized token; a fragment is one emoji or a run of text without emoji
C13_FragmentsRebuild ==
    frags # <<>> =>
        /\ ConcatAll([k \in 1..Len(frags[1]) |-> frags[1][k].text])
              = normalizeUnicodeForPDF(rawText)
        /\ \A k \in 1..Len(frags[1]) :
              LET f == frags[1][k] IN
              IF f.type = "emoji" THEN Len(f.text) = 1 /\ f.text[1] \in Emoji
              ELSE f.text # <<>> /\ \A j \in 1..Len(f.text) : f.text[j] \notin Emoji

\* a token with text, an emoji and text that normalization changes was split
C13_Witness ==
    /\ frags # <<>>
    /\ rawText = <<"ellipsis", "emoji", "e-acute">>
    /\ Len(frags[1]) = 3
    /\ frags[1][2].type = "emoji"

\* C14: normalizing a normalized string changes nothing
C14_NormalizeIdempotent == twice # <<>> => twice = once

\* a string that normalization changes was normalized twice
C14_Witness ==
    /\ twice # <<>>
    /\ once[1] # rawText
    /\ rawText = <<"guillemet", "e-acute", "combining-acute">>

\* the emoji drawn onto the canvas are as many as the distinct keys requested
C18_CountIsKeys == rasterized = Cardinality(requested.keys)

\* C18: the emoji drawn onto the canvas are as many as the distinct keys
\* (grapheme, family, style, size) requested, and a request of a key requested
\* before draws nothing
C18_OneRasterizationPerKey ==
    /\ []C18_CountIsKeys
    /\ [][\A emoji \in Emoji, seg \in EmojiSegments, size \in EmojiSizes :
             (/\ <<emoji, styleFromSeg(seg).family, styleFromSeg(seg).style, size>>
                    \in requested.keys
              /\ requested'.keys = requested.keys)
                => rasterized' = rasterized]_vars

\* three requests, two of them of one key
C18_Witness ==
    /\ requested.calls = 3
    /\ Cardinality(requested.keys) = 2
    /\ rasterized = 2

\* no renderer raises
C15_NeverRaises == stage # "failed"

\* C15: no block renderer raises, and a renderer entered with an empty
\* collection (drawParagraph, drawQuote or drawCaption of no segments) draws
\* nothing and leaves the cursor and the page count as they are
C15_EmptyIsNoOp ==
    /\ []C15_NeverRaises
    /\ [][(/\ lastOp = "enter" /\ stage = "blocks" /\ inBlock
           /\ todo = drawParagraph(0))
             => (y' = y /\ numPages' = numPages /\ lastOp' # "draw")]_vars

\* a list without items made generatePDF raise
C15_Witness == stage = "failed" /\ inBlock /\ ~saved

\* the headings recorded on a page of the document
C16_OnAPage == {i \in 1..Len(outlineHeadings) : outlineHeadings[i].page \in 1..numPages}

\* C16: once the outline is built the document is saved, and the outline holds
\* one node for each heading whose page resolves and none for the others
C16_UnresolvedSkipped ==
    stage = "done" =>
        /\ saved
        /\ Len(outline) = Cardinality(C16_OnAPage)
        /\ \A i \in 1..Len(outlineHeadings) :
              Cardinality({k \in 1..Len(outline) : outline[k].objId = i})
                 = IF i \in C16_OnAPage THEN 1 ELSE 0

\* of three headings the second did not resolve: the outline holds the other two
C16_Witness ==
    /\ stage = "done" /\ saved
    /\ Len(outlineHeadings) = 3
    /\ C16_OnAPage = {1, 3}
    /\ [k \in 1..Len(outline) |-> outline[k].objId] = <<1, 3>>

\* C17: the step of drawImage in which the image fails to load or decode
\* leaves the cursor and the pages as they are and calls for no drawing; the
\* loop over the items of the block goes on
C17_FailedImageSkipped ==
    [][lastOp' = "catch" =>
          /\ y' = y /\ numPages' = numPages /\ currentPageNumber' = currentPageNumber
          /\ todo' = <<>>
          /\ stage' = "blocks" /\ inBlock']_vars

\* an image of a block failed to load, the cursor below the top of the page
C17_Witness == lastOp = "catch" /\ y > margin /\ inBlock /\ todo = <<>>

\* the tokens of the segments from the k-th on, each with the index of its segment
RECURSIVE C19_TokensFrom(_, _)
C19_TokensFrom(segs, k) ==
    IF k > Len(segs) THEN <<>>
    ELSE LET toks == SegmentTokens(<<segs[k]>>)
         IN  [j \in 1..Len(toks) |-> [text |-> toks[j], seg |-> k]] \o C19_TokensFrom(segs, k + 1)

C19_Tokens == C19_TokensFrom(segments, 1)

C19_TokenWidth(t) == SumWidths(splitTokenIntoFragments(t.text, segments[t.seg], SIZE_body))

RECURSIVE C19_TotalWidth(_)
C19_TotalWidth(toks) ==
    IF toks = <<>> THEN 0 ELSE C19_TokenWidth(Head(toks)) + C19_TotalWidth(Tail(toks))

\* no newline in the segments, and their tokens together no wider than maxWidth
C19_FitsOneLine ==
    /\ laidOut
    /\ \A k \in 1..Len(segments) : \A j \in 1..Len(segments[k].text) : segments[k].text[j] # "\n"
    /\ C19_TotalWidth(C19_Tokens) <= maxWidth

\* the part a token is expected to become
C19_PartOf(t) ==
    [text |-> t.text, width |-> C19_TokenWidth(t),
     bold |-> segments[t.seg].bold, italic |-> segments[t.seg].italic,
     mono |-> segments[t.seg].mono, link |-> segments[t.seg].link]

C19_Shown(part) ==
    [text |-> part.text, width |-> part.width,
     bold |-> part.bold, italic |-> part.italic, mono |-> part.mono, link |-> part.link]

\* the tokens from the first that is more than whitespace
RECURSIVE C19_DropLeading(_)
C19_DropLeading(toks) ==
    IF toks = <<>> THEN <<>>
    ELSE IF IsSpaceToken(Head(toks).text) THEN C19_DropLeading(Tail(toks))
    ELSE toks

C19_LineOf(toks) ==
    /\ Len(lines) = 1
    /\ [k \in 1..Len(lines[1]) |-> C19_Shown(lines[1][k])] = [k \in 1..Len(toks) |-> C19_PartOf(toks[k])]

\* C19 as stated: segments without a newline whose tokens together are no wider
\* than maxWidth give exactly one line, whose parts are the tokens in input
\* order, each with the flags of its segment
C19_TokensAreParts == C19_FitsOneLine => C19_LineOf(C19_Tokens)

\* C19: segments without a newline whose tokens together are no wider than
\* maxWidth give no line if no token holds more than whitespace and one line
\* otherwise; the parts of that line are the tokens from the first that holds
\* more than whitespace, in input order, each with the flags of its segment.
\* "Hello " and bold "world" at 1000 pt give one line of two parts, the first
\* normal and the second bold
C19_OneLineOfTokens ==
    /\ C19_FitsOneLine =>
          LET kept == C19_DropLeading(C19_Tokens)
          IN  IF kept = <<>> THEN lines = <<>> ELSE C19_LineOf(kept)
    /\ (laidOut /\ segments = HelloWorld /\ maxWidth = 1000 * 100000) =>
          /\ Len(lines) = 1
          /\ Len(lines[1]) = 2
          /\ lines[1][1].text = <<"H", "e", "l", "l", "o", " ">>
          /\ ~lines[1][1].bold
          /\ lines[1][2].text = <<"w", "o", "r", "l", "d">>
          /\ lines[1][2].bold

\* "Hello " and bold "world" have been laid out at 1000 pt into one line
C19_Witness ==
    /\ C19_FitsOneLine
    /\ segments = HelloWorld
    /\ maxWidth = 1000 * 100000
    /\ Len(lines) = 1
    /\ Len(lines[1]) = 2

C20_Mentions == IF "mentions" \in DOMAIN refArticle THEN refArticle.mentions ELSE <<>>

\* the mentions that have a non-empty URL
C20_WithUrl == {k \in 1..Len(C20_Mentions) : ~Falsy(C20_Mentions[k], "url")}

C20_First(u) == SetMin({k \in C20_WithUrl : C20_Mentions[k].url = u})

\* C20: collectReferences returns exactly one reference for each distinct
\* non-empty URL of the mentions, in the order in which the URLs first occur;
\* a mention without a URL, with an empty one, or with a URL seen before gives
\* no reference
C20_OnePerUrl ==
    collected =>
        /\ {references[k].url : k \in 1..Len(references)} = {C20_Mentions[k].url : k \in C20_WithUrl}
        /\ \A i, j \in 1..Len(references) :
              i < j =>
                 /\ references[i].url # references[j].url
                 /\ C20_First(references[i].url) < C20_First(references[j].url)

\* the mentions of the test have been collected: two references, for the
\* URLs a and b, the repeated and the empty URL left out
C20_Witness ==
    /\ collected
    /\ C20_Mentions = TestMentions
    /\ [k \in 1..Len(references) |-> references[k].url]
         = <<"https://example.com/a", "https://example.com/b">>

C21_Headings == IF "headings" \in DOMAIN tocArgs THEN tocArgs.headings ELSE <<>>

\* the headings of level at most ml, in input order
C21_Kept(ml) == SelectSeqIdx(C21_Headings, {k \in 1..Len(C21_Headings) : C21_Headings[k].level <= ml})

\* the section holds one entry for each heading of kept, in order; null if none
C21_EntriesAre(kept) ==
    IF kept = <<>> THEN toc = Null
    ELSE /\ toc # Null
         /\ Len(toc.blocks) = Len(kept)
         /\ \A k \in 1..Len(kept) :
               /\ toc.blocks[k].text[1] = kept[k].level - 1
               /\ toc.blocks[k].text[2] = kept[k].text

\* C21 as stated: the entries are the headings of level at most the maxLevel
\* passed, whatever it is
C21_AtMostMaxLevel ==
    (tocBuilt /\ "maxLevel" \in DOMAIN tocArgs) => C21_EntriesAre(C21_Kept(tocArgs.maxLevel))

\* C21: buildTOC returns one entry for each heading whose level is at most the
\* level in force, maxLevel if it is a number that is at least 1 and 3
\* otherwise, none for a deeper heading, in input order, and null when no
\* heading qualifies
C21_AtMostLevelInForce ==
    tocBuilt =>
        C21_EntriesAre(C21_Kept(IF "maxLevel" \in DOMAIN tocArgs /\ tocArgs.maxLevel >= 1
                                THEN tocArgs.maxLevel ELSE 3))

\* the headings of the test at maxLevel 3: three entries, "Too deep" left out
C21_Witness ==
    /\ tocBuilt
    /\ tocArgs = [headings |-> TestHeadings, maxLevel |-> 3]
    /\ toc # Null
    /\ Len(toc.blocks) = 3
    /\ toc.blocks[3].text[2] = "Detail"

\* C22: whenever a conversion attempt ends, the button shown is enabled and has
\* a click listener, so that a click on it starts a new attempt
C22_ReadyAfterAttempt ==
    [][ended' # ended => (~button'.disabled /\ button'.listener # "none")]_vars

\* when the handler of the first button ends, the button shown is enabled and
\* a click on it starts an attempt
C22_ReadyAfterFirstHandler ==
    [][(ended' # ended /\ popupPc \in {"queryTabs", "wait", "generate"})
          => (~button'.disabled /\ button'.listener # "none")]_vars

\* a forced extraction has failed: the button shown is enabled and has no
\* click listener
C22_Witness ==
    /\ ended # <<>>
    /\ ended[Len(ended)] = "forced extraction failed"
    /\ popupPc = "idle"
    /\ ~button.disabled
    /\ button.listener = "none"

\* an exception in the forced generation has left the button disabled
C22_StuckDisabled ==
    /\ ended # <<>>
    /\ ended[Len(ended)] = "exception"
    /\ popupPc = "idle"
    /\ button.disabled

\* C23: in one sendMessageToTab call the content scripts are injected at most
\* once and the message is sent at most twice
C23_InjectedOnceSentTwice == Len(injections) <= 1 /\ Len(attempts) <= 2

\* the error of the first attempt came after its timeout had fired: a second
\* injection and a third message
C23_Witness ==
    /\ Len(injections) = 2
    /\ Len(attempts) = 3
    /\ attempts[1].timer = "fired"
    /\ attempts[1].callback = "called"

\* C24: every sendMessageToTab call settles in the end, by a response or by an
\* error, if the timers fire and the injections call back, whether or not the
\* content script answers
C24_Settles == <>(settled # "pending")

\* the message was sent twice and never answered: the call is rejected by the
\* timeout of the retried attempt
C24_Witness ==
    /\ settled = "rejected"
    /\ Len(attempts) = 2
    /\ \A i \in 1..Len(attempts) : attempts[i].callback = "pending" /\ attempts[i].timer = "fired"
    /\ injections = <<"done">>

\* C25: after ensureSpace(h) has returned, the height asked for fits on the
\* current page: y + h <= pageH - margin
C25_HeightFits ==
    [][(todo # <<>> /\ Head(todo).op = "ensure" /\ lastOp' = "ensure")
          => y' + Head(todo).n <= pageH - margin]_vars

\* ensureSpace has returned at the top of a new page for an image 400 px wide
\* and 900 px high, which is drawn next and ends below the page
C25_Witness ==
    /\ lastOp = "ensure"
    /\ y = margin
    /\ numPages > 1
    /\ todo = <<Op("draw", ImgH(Image(TRUE, 400, 900)) + 1000)>>
    /\ y + ImgH(Image(TRUE, 400, 900)) > pageH

\* the size the k-th line of the block gets in a block that holds it alone
C26_SizeAlone(k) == RenderLinesFrom(<<codeSrc[k]>>, 1, SIZE_code)[1].size

\* C26: the font size of a line of a code block is the size the line gets
\* alone: it depends on the text of the line only, not on the lines before it
C26_SizeOfOwnText ==
    \A k \in 1..Len(renderLines) : renderLines[k].size = C26_SizeAlone(renderLines[k].line)

\* a line that is shrunk when alone keeps the base size after a shrunk line
C26_Witness ==
    \E k \in 2..Len(renderLines) :
        /\ renderLines[k].line = renderLines[k - 1].line + 1
        /\ renderLines[k - 1].size < SIZE_code
        /\ renderLines[k].size = SIZE_code
        /\ C26_SizeAlone(renderLines[k].line) < SIZE_code

\* the token lists given to combineSingleCharRuns in the layout of the segments
C27_TokenLists ==
    {MatchTokens(chunk, <<>>, FALSE) :
        chunk \in UNION {{c \in Range(SplitNewlines(normalizeUnicodeForPDF(segments[k].text), <<>>)) :
                              c # <<"\n">> /\ c # <<>>} : k \in 1..Len(segments)}}

\* C27: combineSingleCharRuns only regroups: its output tokens concatenate to
\* what its input tokens concatenate to, and the whitespace-only tokens pass
\* through unchanged
C27_OnlyRegroups ==
    laidOut =>
        \A rawTokens \in C27_TokenLists :
            /\ ConcatAll(combineSingleCharRuns(rawTokens)) = ConcatAll(rawTokens)
            /\ SelectSeq(combineSingleCharRuns(rawTokens), IsSpaceToken)
                 = SelectSeq(rawTokens, IsSpaceToken)

\* "a W" has been laid out: its tokens "a " and "W" became the one part "aW "
C27_Witness ==
    /\ laidOut
    /\ segments = <<Plain(<<"a", " ", "W">>)>>
    /\ PartTexts(lines) = <<<<"a", "W", " ">>>>

\* C28: on the same headings and the same pages, createOutline without the
\* plugin and createPDFOutline build the same tree: the same nodes with the same
\* parents, in the same order, with the same destinations
C28_SameOutline ==
    (stage = "done" /\ libOutline # <<>>) => libOutline[1] = outline

\* the two builders build the same tree when the page of every heading resolves
C28_SameIfResolved ==
    (stage = "done" /\ libOutline # <<>> /\ C16_OnAPage = 1..Len(outlineHeadings))
        => libOutline[1] = outline

\* headings of levels 2, 2, 3 of which the second does not resolve: the third
\* is a child of the first for createPDFOutline and a root for createOutline
C28_Witness ==
    /\ stage = "done"
    /\ libOutline # <<>>
    /\ [k \in 1..Len(outlineHeadings) |-> outlineHeadings[k].level] = <<2, 2, 3>>
    /\ C16_OnAPage = {1, 3}
    /\ [k \in 1..Len(outline) |-> outline[k].parent] = <<0, 1>>
    /\ [k \in 1..Len(libOutline[1]) |-> libOutline[1][k].parent] = <<0, 0>>

\* the headings of the container other than Introduction, in document order
C29_Headings ==
    LET hs == SelectSeq(contentPage.nodes,
                        LAMBDA el : IsHeadingTag(el.tag) /\ el.text # "Introduction")
    IN  [k \in 1..Len(hs) |-> <<hs[k].text, IF hs[k].tag = "H2" THEN 2 ELSE 3>>]

\* the headings of the blocks of an article, in order
C29_BlockHeadings(blocks) ==
    LET bs == SelectSeq(blocks, LAMBDA b : b.level # 0)
    IN  [k \in 1..Len(bs) |-> <<bs[k].heading, bs[k].level>>]

C29_Extracted == responses # <<>> /\ "blocks" \in DOMAIN responses[1]

\* C29: every heading of the container other than Introduction is the heading
\* of exactly one block of the article extracted, in document order
C29_EveryHeadingABlock ==
    C29_Extracted => C29_BlockHeadings(responses[1].blocks) = C29_Headings

\* an H2 followed at once by an H3 with a paragraph: the article holds the
\* block of the H3 only
C29_Witness ==
    /\ C29_Extracted
    /\ [k \in 1..Len(contentPage.nodes) |-> contentPage.nodes[k].tag] = <<"H2", "H3", "P">>
    /\ C29_Headings = <<<<"Setup", 2>>, <<"Setup", 3>>>>
    /\ C29_BlockHeadings(responses[1].blocks) = <<<<"Setup", 3>>>>

\* C30: once the listener has ended, sendResponse has been called exactly once,
\* with an article or an error, the error being "No article found" on a page
\* where no selector matches
C30_RespondsOnce ==
    listener # "pending" =>
        /\ Len(responses) = 1
        /\ contentPage.matches = {} =>
              responses[1] \in {[error |-> "No article found"],
                                [error |-> "Action not allowed for this site"]}

\* the listener answers once wherever a selector matches or the provider
\* refuses the action
C30_RespondsOnceIfFound ==
    (listener # "pending"
       /\ (contentPage.matches # {}
             \/ (contentPage.provider = "denies" /\ contentMsg = "extractArticle")))
        => Len(responses) = 1

\* on a page where no selector matches the listener has ended by an exception
\* and sendResponse was not called
C30_Witness ==
    /\ listener = "threw"
    /\ contentPage.matches = {}
    /\ responses = <<>>

====
